--------------------------- MODULE NmVersionCheck ---------------------------
(***************************************************************************)
(* check_nm_version() of src/rust/src/lib/nm/query_apply/apply.rs, the     *)
(* first step of nm_apply(): the version string NetworkManager reports is  *)
(* split at '.', each part parsed as an i32 (0 when it does not parse), and *)
(* a warning that the version is unsupported, "expecting >= 1.40", is      *)
(* logged when the major part is below 1 or the minor part below 40.       *)
(* A failed version() call skips the check.                                *)
(*                                                                         *)
(* A version string is a sequence of characters.                           *)
(***************************************************************************)
EXTENDS Integers, Sequences, SequencesExt

CONSTANTS
    Versions,   \* the strings version() may return, or None for an Err
    None

DecimalDigits == <<"0", "1", "2", "3", "4", "5", "6", "7", "8", "9">>

DigitValue(c) == CHOOSE i \in 0..9 : DecimalDigits[i + 1] = c

(* str::split('.'): the parts between the dots, empty ones included.       *)
SplitDot(s) ==
    LET cuts == SetToSortSeq({0, Len(s) + 1} \cup
                             {i \in DOMAIN s : s[i] = "."}, <)
    IN [k \in 1..Len(cuts) - 1 |-> SubSeq(s, cuts[k] + 1, cuts[k + 1] - 1)]

(* v.parse::<i32>().unwrap_or_default(): the decimal value of a non-empty  *)
(* string of digits, 0 for anything else (the model's parts are short      *)
(* enough never to exceed i32).                                            *)
ParseI32OrDefault(part) ==
    IF part # <<>> /\ \A i \in DOMAIN part : part[i] \in Range(DecimalDigits)
    THEN FoldLeft(LAMBDA acc, c : 10 * acc + DigitValue(c), 0, part)
    ELSE 0

(* The parsed parts of the version.                                        *)
VersionParts(v) == [k \in DOMAIN SplitDot(v) |-> ParseI32OrDefault(SplitDot(v)[k])]

(* Whether check_nm_version() logs the unsupported-version warning.        *)
WarnsUnsupported(v) ==
    /\ v # None
    /\ Len(VersionParts(v)) >= 2
    /\ LET major == VersionParts(v)[1]
           minor == VersionParts(v)[2]
       IN major < 1 \/ minor < 40

VARIABLES
    nmVersion,  \* what nm_api.version() returned, or None
    checked,    \* check_nm_version() has run
    warned      \* it logged the unsupported-version warning

versionVars == <<nmVersion, checked, warned>>

VersionTypeOK ==
    /\ nmVersion \in Versions
    /\ checked \in BOOLEAN
    /\ warned \in BOOLEAN

VersionInit ==
    /\ nmVersion \in Versions
    /\ checked = FALSE
    /\ warned = FALSE

CheckNmVersion ==
    /\ ~checked
    /\ checked' = TRUE
    /\ warned' = WarnsUnsupported(nmVersion)
    /\ UNCHANGED nmVersion

(* nm_apply() goes on with the deletion pass.                              *)
VersionChecked ==
    /\ checked
    /\ UNCHANGED versionVars

VersionNext == CheckNmVersion \/ VersionChecked

VersionSpec == VersionInit /\ [][VersionNext]_versionVars

-----------------------------------------------------------------------------
(* The warning is logged exactly for a version below 1.40, as its text     *)
(* says ("expecting >= 1.40"): major and minor compared as a pair, so     *)
(* that 2.0 is newer than 1.40 and 1.39 older.                             *)
BelowMinimum(v) ==
    LET p == VersionParts(v) IN
    p[1] < 1 \/ (p[1] = 1 /\ p[2] < 40)

WarnsOnlyBelowMinimum ==
    checked /\ nmVersion # None /\ Len(VersionParts(nmVersion)) >= 2 =>
        (warned <=> BelowMinimum(nmVersion))
=============================================================================
