---------------------------- MODULE NmDbusSetting ----------------------------
(***************************************************************************)
(* Settings of a NetworkManager profile that nmstate parses and writes     *)
(* back: the routing-rules array of an ip setting (route_rule.rs, with the *)
(* operators of NmRouteRule), and the dictionaries it keeps in a HashMap:  *)
(* NmSettingVeth (veth.rs),                                                *)
(* NmSettingIpVlan (ipvlan.rs) and NmSetting8021X (ieee8021x.rs), all in   *)
(* src/rust/src/lib/nm/nm_dbus/connection/.  try_from() takes the known    *)
(* keys out of the a{sv} dictionary and keeps the rest in _other;          *)
(* to_value() inserts the fields that are set and then extends the map     *)
(* with _other.  The 802.1X setting also receives its secrets separately  *)
(* (fill_secrets()), and carries certificate paths as glib bytes           *)
(* (file_path_to_glib_bytes(), glib_bytes_to_file_path()).                 *)
(*                                                                         *)
(* A D-Bus value is a record [t, v] of signature letter and value; byte    *)
(* strings are sequences of one-character strings, "NUL" for the zero byte *)
(* and "xFF" for a byte that is not valid UTF-8.                           *)
(***************************************************************************)
EXTENDS NmRouteRule

CONSTANTS
    Inputs,         \* setting -> the dictionaries GetSettings may return
    RuleInputs,     \* the routing-rules arrays GetSettings may return
    SecretInputs,   \* the secrets dictionaries GetSecrets may return
    Paths           \* file paths a certificate may name

-----------------------------------------------------------------------------
(* Each struct's fields: the D-Bus key and the signature of the Rust type  *)
(* try_from() converts it with and to_value() writes it as.                *)
VethKeyType == "peer" :> "s"
IpVlanKeyType ==
    ("parent" :> "s") @@ ("mode" :> "u") @@ ("private" :> "b") @@ ("vepa" :> "b")
Ieee8021xKeyType ==
    ("identity" :> "s") @@ ("private-key" :> "ay") @@ ("eap" :> "as") @@
    ("client-cert" :> "ay") @@ ("ca-cert" :> "ay") @@
    ("private-key-password" :> "s") @@ ("phase2-auth" :> "s") @@
    ("password" :> "s")

Settings == {"veth", "ipvlan", "802-1x"}
KeyType == ("veth" :> VethKeyType) @@ ("ipvlan" :> IpVlanKeyType) @@
           ("802-1x" :> Ieee8021xKeyType)
Fields == [s \in Settings |-> DOMAIN KeyType[s]]

(* The fields try_from() sets to None, for fill_secrets() to fill.         *)
SecretKeys == [s \in Settings |->
                IF s = "802-1x" THEN {"private-key-password", "password"} ELSE {}]

(* _from_map!(v, key, T::try_from): None when absent, Err on a value of    *)
(* another signature.                                                      *)
FromMap(s, d, k) ==
    IF k \notin DOMAIN d THEN None
    ELSE IF d[k].t # KeyType[s][k] THEN Err
    ELSE d[k]

(* Mutation of TryFromDict: the converted keys are left in _other.         *)
TryFromDictKeep(s, d) ==
    LET parsed == Fields[s] \ SecretKeys[s] IN
    IF \E k \in parsed : FromMap(s, d, k) = Err THEN Err
    ELSE [field |-> [k \in Fields[s] |->
                        IF k \in parsed THEN FromMap(s, d, k) ELSE None],
          other |-> d]

(* try_from(): the fields parsed, secret fields set to None (they are not  *)
(* taken out, so a secret present in the dictionary stays in _other).      *)
TryFromDict(s, d) ==
    LET parsed == Fields[s] \ SecretKeys[s] IN
    IF \E k \in parsed : FromMap(s, d, k) = Err THEN Err
    ELSE [field |-> [k \in Fields[s] |->
                        IF k \in parsed THEN FromMap(s, d, k) ELSE None],
          other |-> Restrict(d, DOMAIN d \ parsed)]

(* Mutation of FillSecrets: a secret taken whatever its signature.         *)
FillSecretsAnyType(s, r, sec) ==
    [r EXCEPT !.field =
        [k \in DOMAIN @ |->
            IF k \in SecretKeys[s] /\ k \in DOMAIN sec THEN sec[k] ELSE @[k]]]

(* fill_secrets(): each secret key whose value converts to a String is     *)
(* set; one that does not is only logged.                                  *)
FillSecrets(s, r, sec) ==
    [r EXCEPT !.field =
        [k \in DOMAIN @ |->
            IF k \in SecretKeys[s] /\ k \in DOMAIN sec /\ sec[k].t = "s"
            THEN sec[k] ELSE @[k]]]

(* to_value(): the set fields, then ret.extend(_other), where a key of     *)
(* _other replaces a field of the same key.                                *)
ToValue(s, r) ==
    LET set == {k \in DOMAIN r.field : r.field[k] # None} IN
    [k \in set \cup DOMAIN r.other |->
        IF k \in DOMAIN r.other THEN r.other[k] ELSE r.field[k]]

-----------------------------------------------------------------------------
(* Certificate paths as glib bytes.                                        *)
GLIB_FILE_PATH_PREFIX == <<"f", "i", "l", "e", ":", "/", "/">>

(* file_path_to_glib_bytes(): "file://" + path + "\0".                     *)
FilePathToGlibBytes(p) == GLIB_FILE_PATH_PREFIX \o p \o <<"NUL">>

(* str::trim_end_matches(char::from(0)): every trailing zero byte.         *)
RECURSIVE TrimEndNul(_)
TrimEndNul(b) ==
    IF b # <<>> /\ Last(b) = "NUL" THEN TrimEndNul(Front(b)) ELSE b

(* Mutation of GlibBytesToFilePath: one byte too few drained.              *)
GlibBytesToFilePathOffByOne(b) ==
    IF \E i \in DOMAIN b : b[i] = "xFF" THEN Err
    ELSE LET f == TrimEndNul(b) IN
         IF IsPrefix(GLIB_FILE_PATH_PREFIX, f)
         THEN SubSeq(f, Len(GLIB_FILE_PATH_PREFIX), Len(f))
         ELSE Err

(* glib_bytes_to_file_path(): UTF-8 decoding (Err on an invalid byte),     *)
(* trailing zero bytes trimmed, then the prefix drained, or Err when the   *)
(* bytes do not start with it.                                             *)
GlibBytesToFilePath(b) ==
    IF \E i \in DOMAIN b : b[i] = "xFF" THEN Err
    ELSE LET f == TrimEndNul(b) IN
         IF IsPrefix(GLIB_FILE_PATH_PREFIX, f)
         THEN SubSeq(f, Len(GLIB_FILE_PATH_PREFIX) + 1, Len(f))
         ELSE Err

-----------------------------------------------------------------------------
VARIABLES
    setting,    \* which struct, or "routing-rules"
    input,      \* the dictionary (the rule array) of GetSettings
    secrets,    \* the secrets dictionary applied, or None
    parsed,     \* the struct (the rules), Err, or None before parsing
    output,     \* the dictionary written back, or None
    certPath,   \* the path the ca-cert was set from, or None
    phase

vars == <<setting, input, secrets, parsed, output, certPath, phase>>

IsRules == setting = "routing-rules"

(* The struct has its fields, and _other none of the keys it converts.     *)
TypeOK ==
    /\ \/ setting \in Settings /\ input \in Inputs[setting]
       \/ IsRules /\ input \in RuleInputs
    /\ phase \in {"read", "parsed", "written", "failed"}
    /\ parsed \notin {None, Err} /\ ~IsRules =>
          /\ DOMAIN parsed.field = Fields[setting]
          /\ DOMAIN parsed.other \cap (Fields[setting] \ SecretKeys[setting]) = {}
    /\ parsed \notin {None, Err} /\ IsRules =>
          \A i \in DOMAIN parsed : DOMAIN parsed[i].other \cap RuleKnownKeys = {}

Init ==
    /\ \/ setting \in Settings /\ input \in Inputs[setting]
       \/ setting = "routing-rules" /\ input \in RuleInputs
    /\ secrets = None
    /\ parsed = None
    /\ output = None
    /\ certPath = None
    /\ phase = "read"

(* The setting is parsed from the profile.                                 *)
Parse ==
    /\ phase = "read"
    /\ ~IsRules
    /\ parsed' = TryFromDict(setting, input)
    /\ phase' = IF parsed' = Err THEN "failed" ELSE "parsed"
    /\ UNCHANGED <<setting, input, secrets, output, certPath>>

(* The profile's secrets are read and filled in (802.1X only).             *)
Fill ==
    /\ phase = "parsed"
    /\ secrets = None
    /\ ~IsRules
    /\ SecretKeys[setting] # {}
    /\ \E sec \in SecretInputs :
        /\ secrets' = sec
        /\ parsed' = FillSecrets(setting, parsed, sec)
    /\ UNCHANGED <<setting, input, output, certPath, phase>>

(* The 802.1X CA certificate is set from a file path, as glib bytes.      *)
SetCaCert ==
    /\ phase = "parsed"
    /\ setting = "802-1x"
    /\ certPath = None
    /\ \E p \in Paths :
        /\ certPath' = p
        /\ parsed' = [parsed EXCEPT !.field["ca-cert"] =
                          [t |-> "ay", v |-> FilePathToGlibBytes(p)]]
    /\ UNCHANGED <<setting, input, secrets, output, phase>>

(* The setting is written back.                                            *)
Write ==
    /\ phase = "parsed"
    /\ ~IsRules
    /\ output' = ToValue(setting, parsed)
    /\ phase' = "written"
    /\ UNCHANGED <<setting, input, secrets, parsed, certPath>>

(* The ip setting is read and its rules parsed.                            *)
ParseRules ==
    /\ phase = "read"
    /\ IsRules
    /\ parsed' = ParseNmIpRuleData(input)
    /\ phase' = IF parsed' = Err THEN "failed" ELSE "parsed"
    /\ UNCHANGED <<setting, input, secrets, output, certPath>>

(* The profile is written back with the same rules.                        *)
WriteRules ==
    /\ phase = "parsed"
    /\ IsRules
    /\ output' = NmIpRulesToValue(parsed)
    /\ phase' = "written"
    /\ UNCHANGED <<setting, input, secrets, parsed, certPath>>

Finished ==
    /\ phase \in {"written", "failed"}
    /\ UNCHANGED vars

Next == Parse \/ Fill \/ SetCaCert \/ Write \/ ParseRules \/ WriteRules \/ Finished

Spec == Init /\ [][Next]_vars

-----------------------------------------------------------------------------
(* The secrets that fill_secrets() takes (those of String signature) and  *)
(* the certificate set from a path.                                        *)
Edits ==
    LET filled == IF secrets = None THEN <<>>
                  ELSE Restrict(secrets, {k \in DOMAIN secrets \cap SecretKeys[setting] :
                                             secrets[k].t = "s"})
        cert == IF certPath = None THEN <<>>
                ELSE "ca-cert" :> [t |-> "ay", v |-> FilePathToGlibBytes(certPath)]
    IN filled @@ cert

(* Lossless write-back: the dictionary written holds every key NM sent,    *)
(* with its signature and value, keys the struct does not know included,   *)
(* plus the secrets filled in and the certificate set, and nothing else.   *)
WriteBackLossless ==
    phase = "written" /\ ~IsRules => output = Edits @@ input

(* Certificate paths survive the glib byte encoding: the ca-cert bytes of  *)
(* the setting decode to the path they were set from, and bytes read from  *)
(* NM decode either to an error or to the path whose encoding they are.    *)
CaCertPathRoundTrip ==
    setting = "802-1x" /\ parsed \notin {None, Err}
        /\ parsed.field["ca-cert"] # None =>
        LET b == parsed.field["ca-cert"].v
            p == GlibBytesToFilePath(b)
        IN /\ certPath # None => p = certPath
           /\ p # Err => FilePathToGlibBytes(p) = b

(* Lossless round trip of the rules: writing back the rules nmstate read   *)
(* gives NM the same array, rule by rule, every key once, with the same    *)
(* signature and value, keys nmstate does not know included; every action *)
(* code of the instance (the three named ones, their neighbours, 0 and     *)
(* 255) survives its conversion to NmIpRouteRuleAction and back.           *)
RoundTrip ==
    phase = "written" /\ IsRules =>
        /\ Len(output) = Len(input)
        /\ \A i \in DOMAIN input :
              /\ IsInjective([j \in DOMAIN output[i] |-> output[i][j][1]])
              /\ AsDict(output[i]) = input[i]

=============================================================================
