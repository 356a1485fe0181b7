------------------------------ MODULE CaseFile ------------------------------
(* The cases of one session, the evidence attached to them, the derived       *)
(* addresses and the reports built from them (case_utils.py, export_utils.py  *)
(* and the pages of app.py around them).                                      *)
(*                                                                            *)
(* All of it lives in st.session_state: every tab has its own, and a wipe or  *)
(* a reload drops it.  A case is known by its id, the UTC second in which it  *)
(* was created; a table of derived addresses is abstracted to the keys of its *)
(* rows and their number.  Fields that end in _ are history: no code has them.*)
EXTENDS Naturals, SequencesExt

CONSTANTS
    Files,        \* evidence files
    MaxSecond,    \* bound on the clock
    MaxCases,     \* bound on the cases created
    MaxEvidence,  \* bound on the files attached to one case
    MaxRows,      \* bound on the rows of a table
    None          \* Python's None

ASSUME BoundsAssumption ==
    /\ MaxSecond \in Nat /\ MaxCases \in Nat
    /\ MaxEvidence \in Nat /\ MaxRows \in Nat \ {0}
    /\ None \notin Nat

VARIABLES
    now,               \* the clock, in seconds
    registry,          \* _case_registry: id -> case
    active,            \* _active_case_id
    last_derivations,  \* the table the exporter reads
    report,            \* the last report downloaded, or None
    created,           \* history: the number of cases created
    custody,           \* history: the files attached to each case
    wiped              \* history: cases created before the last wipe

cvars == <<now, registry, active, last_derivations, report, created, custody, wiped>>
history == <<created, custody, wiped>>

-----------------------------------------------------------------------------
(* The rows the pages keep for the exporter. *)

_REPORT_FIELDS == {"coin", "address_type", "path", "address"}

\* The forbidden names that some row of the program could carry.
_FORBIDDEN_KEYS == {"mnemonic", "private_key", "secret", "passphrase", "xprv", "wif"}

\* An entry of the extended-key tool; an xprv may add the WIF.
derive_from_extended_key(include_wif) ==
    {"index", "change", "path_desc", "address", "type", "coin"}
        \cup (IF include_wif THEN {"wif"} ELSE {})

safe_results_KeepsEntry(include_wif) == derive_from_extended_key(include_wif)

\* What the page keeps of it: coin, type, path_desc and address, renamed.
safe_results(include_wif) == {"coin", "address_type", "path", "address"}

derive_electrum_v1_addresses == {"version", "path_desc", "address", "index", "change"}

derive_electrum_v2_addresses ==
    derive_electrum_v1_addresses \cup {"type", "passphrase_used"}

derive_coin_addresses ==
    {"coin", "coin_id", "label", "path", "address", "account", "index", "evm_note"}

\* Rows of compare_all_standards, derive_eth_addresses, derive_btc_addresses
\* and test_passphrase.
StandardRows == _REPORT_FIELDS

\* A table is refused by safe_record when a row has a forbidden key.
safe_record(table) == table.keys \cap _FORBIDDEN_KEYS = {}

NoTable == [keys |-> {}, rows |-> 0, case_ |-> None]

-----------------------------------------------------------------------------

\* A session that was just opened, or wiped.
EmptySession ==
    /\ registry' = <<>>
    /\ active' = None
    /\ last_derivations' = NoTable

CaseInit ==
    /\ now = 0
    /\ registry = <<>> /\ active = None
    /\ last_derivations = NoTable
    /\ report = None
    /\ created = 0 /\ custody = <<>> /\ wiped = 0

\* The case get_active_case returns, by its number of creation.
get_active_case ==
    IF active \in DOMAIN registry THEN registry[active].case_ ELSE None

Tick ==
    /\ now < MaxSecond
    /\ now' = now + 1
    /\ UNCHANGED <<registry, active, last_derivations, report, history>>

create_case_Minutes ==
    registry' = [c \in DOMAIN registry \cup {now \div 60} |->
                    IF c = now \div 60 THEN [case_ |-> created + 1, evidence |-> <<>>]
                    ELSE registry[c]]

\* case_utils.create_case: an id names a second, and the last case of a
\* second is the one it has.
create_case ==
    registry' = [c \in DOMAIN registry \cup {now} |->
                    IF c = now THEN [case_ |-> created + 1, evidence |-> <<>>]
                    ELSE registry[c]]

\* CREATE CASE.  The new case is activated; the form has a default for every
\* field, and a name of blanks is refused without effect.
CreateCase ==
    /\ created < MaxCases
    /\ create_case
    /\ active' = now
    /\ created' = created + 1
    /\ custody' = Append(custody, <<>>)
    /\ UNCHANGED <<now, last_derivations, report, wiped>>

set_active_case(c) == c \in DOMAIN registry /\ active' = c

\* One of the "Activate a case" buttons, drawn for every case.
ActivateCase(c) ==
    /\ set_active_case(c)
    /\ UNCHANGED <<now, registry, last_derivations, report, history>>

add_evidence_to_active_case_Newest(f) ==
    LET newest == CHOOSE c \in DOMAIN registry : \A d \in DOMAIN registry : d <= c
    IN registry' = [registry EXCEPT ![newest].evidence = Append(@, f)]

add_evidence_to_active_case(f) ==
    registry' = [registry EXCEPT ![active].evidence = Append(@, f)]

\* ATTACH TO ACTIVE CASE, drawn only when there is one.
AttachEvidence(f) ==
    /\ get_active_case # None
    /\ Len(registry[active].evidence) < MaxEvidence
    /\ add_evidence_to_active_case(f)
    /\ custody' = [custody EXCEPT ![get_active_case] = Append(@, f)]
    /\ UNCHANGED <<now, active, last_derivations, report, created, wiped>>

-----------------------------------------------------------------------------
(* The pages that derive addresses.  A derivation that raises shows an error  *)
(* and keeps the table of the one before.                                     *)

Keep(keys, n) ==
    /\ last_derivations' = [keys |-> keys, rows |-> n, case_ |-> get_active_case]
    /\ UNCHANGED <<now, registry, active, report, history>>

\* The extended-key tool: count is at least 1.
page_xpub_tool == \E wif \in BOOLEAN, n \in 1..MaxRows : Keep(safe_results(wif), n)

\* COMBINE & DERIVE: the coins that fail are left out, perhaps all of them.
page_slip39 == \E n \in 0..MaxRows : Keep(StandardRows, n)

\* A mnemonic of unknown version may give no rows at all.
page_electrum ==
    \/ \E n \in 1..MaxRows : Keep(derive_electrum_v1_addresses, n)
    \/ \E n \in 0..MaxRows : Keep(derive_electrum_v2_addresses, n)

\* The passphrase and generator pages: count is at least 1.
page_passphrase == \E n \in 1..MaxRows : Keep(StandardRows, n)

page_address_gen == \E n \in 1..MaxRows : Keep(StandardRows, n)

\* SCAN STANDARDS, and DERIVE WITH PRESET, which keeps a table with rows only.
page_derivation ==
    \E n \in 1..MaxRows, keys \in {StandardRows, derive_coin_addresses} : Keep(keys, n)

\* FIND ADDRESS keeps the candidates it scanned, none if every coin failed.
page_address_matcher == \E n \in 0..MaxRows : Keep(derive_coin_addresses, n)

-----------------------------------------------------------------------------

\* A download button of the exporter: the report names the active case of
\* the moment and the whitelisted columns of the kept table.
page_exporter ==
    /\ last_derivations.rows > 0
    /\ safe_record(last_derivations)
    /\ report' = [case_ |-> get_active_case,
                  columns |-> last_derivations.keys \cap _REPORT_FIELDS,
                  rows_case_ |-> last_derivations.case_]
    /\ UNCHANGED <<now, registry, active, last_derivations, history>>

page_wipe_KeepsDerivations ==
    /\ registry' = <<>>
    /\ active' = None
    /\ wiped' = created
    /\ UNCHANGED <<now, report, created, custody, last_derivations>>

\* CONFIRM SESSION WIPE deletes every key of the session.
page_wipe ==
    /\ EmptySession
    /\ wiped' = created
    /\ UNCHANGED <<now, report, created, custody>>

\* A reloaded tab is a new session.
ReloadTab ==
    /\ EmptySession
    /\ wiped' = created
    /\ UNCHANGED <<now, report, created, custody>>

CaseNext ==
    \/ Tick
    \/ CreateCase
    \/ \E c \in DOMAIN registry : ActivateCase(c)
    \/ \E f \in Files : AttachEvidence(f)
    \/ page_xpub_tool
    \/ page_slip39
    \/ page_electrum
    \/ page_passphrase
    \/ page_address_gen
    \/ page_derivation
    \/ page_address_matcher
    \/ page_exporter
    \/ page_wipe
    \/ ReloadTab

CaseSpec == CaseInit /\ [][CaseNext]_cvars

-----------------------------------------------------------------------------

Numbers == 1..created

CaseTypeOK ==
    /\ now \in 0..MaxSecond
    /\ DOMAIN registry \subseteq 0..now
    /\ \A c \in DOMAIN registry :
          /\ registry[c].case_ \in Numbers
          /\ registry[c].evidence \in Seq(Files)
    /\ active \in {None} \cup 0..now
    /\ last_derivations.rows \in 0..MaxRows
    /\ last_derivations.case_ \in {None} \cup Numbers
    /\ created \in 0..MaxCases /\ wiped \in 0..created
    /\ custody \in Seq(Seq(Files)) /\ Len(custody) = created

\* The evidence list of a case is the files attached while it was the active
\* case, in that order, however the user creates, activates and wipes cases
\* in between (add_evidence_to_active_case looks the active case up again).
CustodyExact ==
    \A c \in DOMAIN registry : registry[c].evidence = custody[registry[c].case_]

\* Whatever page derived last, the exporter accepts its table and can list
\* an address for the QR code: no row has a name safe_record refuses, and
\* every row has an address.
Exportable ==
    last_derivations.rows > 0 =>
        /\ safe_record(last_derivations)
        /\ "address" \in last_derivations.keys

\* A wipe or a reload leaves nothing of the cases before it: no case, no
\* active case and no table derived for one (wipe_session_state).
WipeForgets ==
    /\ active # None => active \in DOMAIN registry
    /\ \A c \in DOMAIN registry : registry[c].case_ > wiped
    /\ last_derivations.case_ # None => last_derivations.case_ > wiped

\* A case and its evidence are lost only with the session, or to a case
\* created in the second in which it was: whatever else the user does, every
\* case stays under its id and its list of evidence only grows (create_case
\* names a case after the second).
CasesKept ==
    [][\/ registry' = <<>> /\ active' = None
       \/ \A c \in DOMAIN registry :
             /\ c \in DOMAIN registry'
             /\ IF registry'[c].case_ = registry[c].case_
                THEN IsPrefix(registry[c].evidence, registry'[c].evidence)
                ELSE c = now]_cvars
=============================================================================
