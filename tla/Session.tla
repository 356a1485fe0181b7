------------------------------- MODULE Session -------------------------------
(***************************************************************************)
(* The session router of app.py: one browser tab is one Streamlit session  *)
(* with its own session_state, and several sessions run as threads of one  *)
(* process that share the append-only file audit_logs/audit.jsonl.         *)
(*                                                                         *)
(* A user event starts a run of the script (main); an event handler ends   *)
(* in st.rerun(), which starts another run.  An action below is the whole  *)
(* of it: the event, the state it changes, and the routing of the run that *)
(* ends it, with every line it adds to the audit log.                      *)
(*                                                                         *)
(* The gates that precede the sidebar (integrity, licence, fingerprint,    *)
(* first-run setup) are passed here; module Workstation models them.       *)
(***************************************************************************)
EXTENDS Naturals, Sequences, FiniteSets

CONSTANTS
    Sessions,         \* the browser tabs connected to the server
    CaseIds,          \* texts an analyst types in the CASE ID field
    RedactedCases,    \* those that contain a word of audit.REDACT_WORDS
    LicensedModules,  \* the "modules" list of the licence in force
    UserPages,        \* the pages the user navigates to
    UserRoles,        \* the roles the user picks in the sidebar
    MaxLog,           \* bound on the length of the audit log
    MaxFails          \* bound on the count of failed codes

OFFLINE_SAFE == "OFFLINE_SAFE"
LIVE_ANALYSIS == "LIVE_ANALYSIS"
NO_CASE == "NO_CASE"
NoRole == "no role"
REDACTED == "[REDACTED_SECRET]"

-----------------------------------------------------------------------------
(* The tables of app.py. *)

RecoveryPages == {"Incomplete Seed Recovery", "Typo Correction Lab",
    "Wrong Word Order Helper", "BIP39 Passphrase Testing",
    "Passphrase Recovery Attack", "Key Importer", "xpub / xprv Key Tool",
    "SLIP39 Share Recovery", "BIP38 Encrypted Key Tool",
    "Electrum Wallet Recovery", "Brain Wallet Recovery",
    "Bitcoin Core wallet.dat Recovery", "BIP39 Validation Lab",
    "Derivation Path Scanner", "Known Address Matcher",
    "ETH/BTC Address Generator", "Recovery Problem Selector"}

CorePages == {"Security Landing", "Case Management", "Evidence Hash Checker"}

UtilityPages == {"Hash/Crypto Tools", "Recovery Report Exporter",
    "Air-Gapped Ops Guide", "Educational Lab", "Clear Session"}

LIVE_LOCKED_PAGES == {"Live Address Lookup", "Live TX Lookup"}

OFFLINE_LOCKED_PAGES == RecoveryPages \cup {"MetaMask Vault Inspector"}

Pages == CorePages \cup OFFLINE_LOCKED_PAGES \cup {"Entropy Analysis Lab"}
            \cup UtilityPages \cup LIVE_LOCKED_PAGES

\* The buttons of the sidebar, which depend on the mode.
NavPages(mode) ==
    IF mode = OFFLINE_SAFE THEN Pages \ LIVE_LOCKED_PAGES
    ELSE CorePages \cup LIVE_LOCKED_PAGES \cup UtilityPages

\* The cards of the recovery problem selector.
SelectorPages == RecoveryPages \ {"Recovery Problem Selector",
    "BIP39 Validation Lab", "ETH/BTC Address Generator"}

UnprotectedRoles == {"Viewer", "Analyst"}
TOTP_PROTECTED_ROLES == {"Senior Analyst", "Admin"}
RoleNames == UnprotectedRoles \cup TOTP_PROTECTED_ROLES

ViewerPages == (Pages \ OFFLINE_LOCKED_PAGES) \ {"Recovery Report Exporter"}

ROLES(role) ==
    CASE role = "Viewer" -> ViewerPages
      [] role = "Analyst" -> ViewerPages \cup {"Recovery Report Exporter",
            "Recovery Problem Selector", "BIP39 Validation Lab",
            "Typo Correction Lab", "Wrong Word Order Helper",
            "Derivation Path Scanner", "Known Address Matcher",
            "ETH/BTC Address Generator"}
      [] OTHER -> Pages

PAGE_MODULE_MAP(page) ==
    CASE page \in RecoveryPages -> "recovery"
      [] page \in {"MetaMask Vault Inspector", "Case Management",
                   "Evidence Hash Checker"} -> "forensic"
      [] page = "Recovery Report Exporter" -> "reports"
      [] OTHER -> "none"

check_module_access(module) ==
    module \in LicensedModules \/ "all" \in LicensedModules

ASSUME SessionAssumption ==
    /\ RedactedCases \subseteq CaseIds
    /\ NO_CASE \notin CaseIds
    \* what these names contain is known: RedactedPages says which are redacted
    /\ RedactedCases \cap (Pages \cup {"system", "totp", "exporter"}) = {}
    /\ UserPages \subseteq Pages
    /\ UserRoles \subseteq RoleNames
    /\ MaxLog \in Nat
    /\ MaxFails \in Nat

-----------------------------------------------------------------------------
VARIABLES
    sess,    \* sess[s]: the keys of st.session_state the router reads
    log,     \* audit_logs/audit.jsonl, oldest line first
    since,   \* history: Len(log) when the role of s was last set
    born     \* history: Len(log) when session_state of s was last empty

vars == <<sess, log, since, born>>

SessionState == [mode : {OFFLINE_SAFE, LIVE_ANALYSIS},
                 role : RoleNames,
                 pending : TOTP_PROTECTED_ROLES \cup {NoRole},
                 page : Pages,
                 authorized : BOOLEAN,
                 auth_case : CaseIds \cup {NO_CASE},
                 fails : Nat,
                 locked : BOOLEAN]

\* sid is not in the file: it is kept to tell the sessions' lines apart.
LogEntry == [sid : Sessions,
             case_id : CaseIds \cup {NO_CASE, "system", REDACTED},
             module : Pages \cup {"totp", "exporter", REDACTED},
             action : {"authorization_granted", "accessed_module",
                       "elevated", "totp_failed", "exported"},
             role : RoleNames,
             mode : {OFFLINE_SAFE, LIVE_ANALYSIS}]

\* The state after init_mode and the defaults of render_sidebar and main.
FreshSession == [mode |-> OFFLINE_SAFE,
                 role |-> "Analyst",
                 pending |-> NoRole,
                 page |-> "Security Landing",
                 authorized |-> FALSE,
                 auth_case |-> NO_CASE,
                 fails |-> 0,
                 locked |-> FALSE]

-----------------------------------------------------------------------------
(* audit.py *)

\* The pages whose names contain "seed", "passphrase" or "key".
RedactedPages == {"Incomplete Seed Recovery", "BIP39 Passphrase Testing",
    "Passphrase Recovery Attack", "Key Importer", "xpub / xprv Key Tool",
    "BIP38 Encrypted Key Tool"}

clean_event_value(v) ==
    IF v \in RedactedPages \cup RedactedCases THEN REDACTED ELSE v

log_event(s, case, module, action, role, mode) ==
    [sid |-> s, case_id |-> clean_event_value(case),
     module |-> clean_event_value(module), action |-> action,
     role |-> role, mode |-> mode]

-----------------------------------------------------------------------------
(* main *)

\* What main shows for a session in state x: the checks in the code's order.
Route(x) ==
    CASE x.page \notin ROLES(x.role) -> "denied"
      [] PAGE_MODULE_MAP(x.page) # "none"
         /\ ~check_module_access(PAGE_MODULE_MAP(x.page)) -> "unlicensed"
      [] x.page \in OFFLINE_LOCKED_PAGES /\ ~x.authorized -> "authorize"
      [] x.mode = LIVE_ANALYSIS /\ x.page \in OFFLINE_LOCKED_PAGES -> "blocked"
      [] x.mode = OFFLINE_SAFE /\ x.page \in LIVE_LOCKED_PAGES -> "blocked"
      [] OTHER -> "handler"

\* The audit line main writes before it calls the handler of the page.
RunEntries(s, x) ==
    IF /\ Route(x) = "handler"
       /\ \/ x.page \in OFFLINE_LOCKED_PAGES
          \/ PAGE_MODULE_MAP(x.page) = "forensic"
    THEN <<log_event(s, x.auth_case, x.page, "accessed_module",
                     x.role, x.mode)>>
    ELSE <<>>

\* An event that leaves session s in state x and appends the given entries,
\* followed by the run of main that ends it.
Step(s, x, entries) ==
    /\ sess' = [sess EXCEPT ![s] = x]
    /\ log' = log \o entries \o RunEntries(s, x)
    /\ Len(log') <= MaxLog

\* st.session_state is empty again: a wipe, or a tab that is (re)opened.
Restart(s) ==
    /\ Step(s, FreshSession, <<>>)
    /\ since' = [since EXCEPT ![s] = Len(log)]
    /\ born' = [born EXCEPT ![s] = Len(log)]

Init ==
    /\ sess = [s \in Sessions |-> FreshSession]
    /\ log = <<>>
    /\ since = [s \in Sessions |-> 0]
    /\ born = [s \in Sessions |-> 0]

-----------------------------------------------------------------------------
(* render_sidebar *)

SwitchMode(s) ==
    /\ LET other == IF sess[s].mode = OFFLINE_SAFE
                    THEN LIVE_ANALYSIS ELSE OFFLINE_SAFE
       IN Step(s, [sess[s] EXCEPT !.mode = other], <<>>)
    /\ UNCHANGED <<since, born>>

\* The ROLE ASSIGNMENT box.  A protected role only opens the code dialog.
SelectUnprotectedRole(s, r) ==
    /\ r # sess[s].role
    /\ Step(s, [sess[s] EXCEPT !.role = r, !.pending = NoRole,
                               !.authorized = FALSE], <<>>)
    /\ since' = [since EXCEPT ![s] = Len(log)]
    /\ UNCHANGED born

\* Mutant: a protected role is assigned without a code.
RequestProtectedRole_Assigns(s, r) ==
    /\ r \notin {sess[s].role, sess[s].pending}
    /\ Step(s, [sess[s] EXCEPT !.role = r, !.pending = NoRole], <<>>)
    /\ since' = [since EXCEPT ![s] = Len(log)]
    /\ UNCHANGED born

RequestProtectedRole(s, r) ==
    /\ r \notin {sess[s].role, sess[s].pending}
    /\ Step(s, [sess[s] EXCEPT !.pending = r], <<>>)
    /\ UNCHANGED <<since, born>>

ReselectCurrentRole(s) ==
    /\ sess[s].pending # NoRole
    /\ Step(s, [sess[s] EXCEPT !.pending = NoRole], <<>>)
    /\ UNCHANGED <<since, born>>

Navigate(s, p) ==
    /\ p \in NavPages(sess[s].mode) \ {sess[s].page}
    /\ Step(s, [sess[s] EXCEPT !.page = p], <<>>)
    /\ UNCHANGED <<since, born>>

-----------------------------------------------------------------------------
(* _totp_dialog, open while the box holds a protected role not yet granted *)

\* Mutant: the new role inherits the authorization.
VerifyCode_KeepsAuthorization(s) ==
    /\ sess[s].pending # NoRole
    /\ ~sess[s].locked
    /\ LET target == sess[s].pending
       IN Step(s,
               [sess[s] EXCEPT !.role = target, !.pending = NoRole,
                               !.fails = 0],
               <<log_event(s, "system", "totp", "elevated",
                           target, sess[s].mode)>>)
    /\ since' = [since EXCEPT ![s] = Len(log)]
    /\ UNCHANGED born

VerifyCode(s) ==
    /\ sess[s].pending # NoRole
    /\ ~sess[s].locked
    /\ LET target == sess[s].pending
       IN Step(s,
               [sess[s] EXCEPT !.role = target, !.pending = NoRole,
                               !.fails = 0, !.authorized = FALSE],
               <<log_event(s, "system", "totp", "elevated",
                           target, sess[s].mode)>>)
    /\ since' = [since EXCEPT ![s] = Len(log)]
    /\ UNCHANGED born

RejectCode(s) ==
    /\ sess[s].pending # NoRole
    /\ ~sess[s].locked
    /\ sess[s].fails < MaxFails
    /\ Step(s,
            [sess[s] EXCEPT !.fails = @ + 1, !.locked = sess[s].fails + 1 >= 3],
            <<log_event(s, "system", "totp", "totp_failed",
                        sess[s].role, sess[s].mode)>>)
    /\ UNCHANGED <<since, born>>

CancelDialog(s) ==
    /\ sess[s].pending # NoRole
    /\ Step(s, [sess[s] EXCEPT !.pending = NoRole, !.fails = 0], <<>>)
    /\ UNCHANGED <<since, born>>

\* The 30 seconds of totp_locked_until pass; no script runs.
LockExpires(s) ==
    /\ sess[s].locked
    /\ sess' = [sess EXCEPT ![s].locked = FALSE]
    /\ UNCHANGED <<log, since, born>>

-----------------------------------------------------------------------------
(* Events on the page that is shown *)

\* Any other widget of the page: the script runs again, main included.
Interact(s) ==
    /\ Step(s, sess[s], <<>>)
    /\ UNCHANGED <<since, born>>

SubmitAuthorization(s, case) ==
    /\ Route(sess[s]) = "authorize"
    /\ Step(s, [sess[s] EXCEPT !.authorized = TRUE, !.auth_case = case],
            <<log_event(s, case, sess[s].page, "authorization_granted",
                        sess[s].role, sess[s].mode)>>)
    /\ UNCHANGED <<since, born>>

\* The run that handles the click has routed to the selector and logged it.
LaunchTool(s, p) ==
    /\ sess[s].page = "Recovery Problem Selector"
    /\ Route(sess[s]) = "handler"
    /\ Step(s, [sess[s] EXCEPT !.page = p], RunEntries(s, sess[s]))
    /\ UNCHANGED <<since, born>>

\* log_export is an on_click callback: it runs before main.
ExportReport(s) ==
    /\ sess[s].page = "Recovery Report Exporter"
    /\ Route(sess[s]) = "handler"
    /\ Step(s, sess[s], <<log_event(s, sess[s].auth_case, "exporter",
                                    "exported", sess[s].role, sess[s].mode)>>)
    /\ UNCHANGED <<since, born>>

\* Mutant: the wipe forgets the router's keys but not auth_case_id.
WipeSession_KeepsCase(s) ==
    /\ sess[s].page = "Clear Session"
    /\ Route(sess[s]) = "handler"
    /\ Step(s, [FreshSession EXCEPT !.auth_case = sess[s].auth_case], <<>>)
    /\ since' = [since EXCEPT ![s] = Len(log)]
    /\ born' = [born EXCEPT ![s] = Len(log)]

WipeSession(s) ==
    /\ sess[s].page = "Clear Session"
    /\ Route(sess[s]) = "handler"
    /\ Restart(s)

ReopenTab(s) == Restart(s)

-----------------------------------------------------------------------------
SessionNext(s) ==
    \/ SwitchMode(s)
    \/ \E r \in UserRoles \ TOTP_PROTECTED_ROLES : SelectUnprotectedRole(s, r)
    \/ \E r \in UserRoles \cap TOTP_PROTECTED_ROLES : RequestProtectedRole(s, r)
    \/ ReselectCurrentRole(s)
    \/ \E p \in UserPages : Navigate(s, p)
    \/ VerifyCode(s)
    \/ RejectCode(s)
    \/ CancelDialog(s)
    \/ LockExpires(s)
    \/ Interact(s)
    \/ \E case \in CaseIds : SubmitAuthorization(s, case)
    \/ \E p \in SelectorPages \cap UserPages : LaunchTool(s, p)
    \/ ExportReport(s)
    \/ WipeSession(s)
    \/ ReopenTab(s)

Next == \E s \in Sessions : SessionNext(s)

Spec == Init /\ [][Next]_vars

-----------------------------------------------------------------------------
(* Properties *)

\* The router's keys and the audit log are of their types, and the history
\* variables are positions of the log, in the order in which they are set.
TypeOK ==
    /\ sess \in [Sessions -> SessionState]
    /\ log \in Seq(LogEntry)
    /\ since \in [Sessions -> Nat]
    /\ born \in [Sessions -> Nat]
    /\ \A s \in Sessions : born[s] <= since[s] /\ since[s] <= Len(log)

IsGrant(e, s) == e.sid = s /\ e.action = "authorization_granted"

\* In log l, line j is the last authorization of session s before line i.
LastGrant(l, s, j, i) ==
    /\ IsGrant(l[j], s)
    /\ \A k \in (j + 1)..(i - 1) : ~IsGrant(l[k], s)

LockedModules == {clean_event_value(p) : p \in OFFLINE_LOCKED_PAGES}

LockedAccess(e) == e.action = "accessed_module" /\ e.module \in LockedModules

\* Line i of log l, an access to a locked page, follows an authorization of
\* its session, made since the session's role was last set (position lo),
\* for the same case and role.
Backed(l, lo, i) ==
    \E j \in (lo + 1)..(i - 1) :
        /\ LastGrant(l, l[i].sid, j, i)
        /\ l[j].role = l[i].role
        /\ l[j].case_id = l[i].case_id

\* main runs the handler of an offline page only in OFFLINE SAFE mode and only
\* under an authorization given by the same session, in the same role, for
\* the case on the audit line, and not since revoked by a change of role, a
\* wipe or a new tab (render_authorization_workflow, render_sidebar,
\* _totp_dialog, page_wipe).
LockedAccessAuthorized ==
    [][\A i \in (Len(log) + 1)..Len(log') :
          LockedAccess(log'[i]) =>
              /\ log'[i].mode = OFFLINE_SAFE
              /\ Backed(log', since'[log'[i].sid], i)]_vars

\* The case of an access or export line is the one of the last authorization
\* the session gave since it was wiped or opened, and NO_CASE if it gave
\* none: auth_case_id outlives a change of role, but not the session.
CaseAttribution ==
    [][\A i \in (Len(log) + 1)..Len(log') :
          LET e == log'[i]
              grants == {j \in (born'[e.sid] + 1)..(i - 1) :
                            LastGrant(log', e.sid, j, i)}
          IN e.action \in {"accessed_module", "exported"} =>
                IF grants = {} THEN e.case_id = NO_CASE
                ELSE \A j \in grants : e.case_id = log'[j].case_id]_vars

\* A session holds Senior Analyst or Admin only by the code it gave: the line
\* that follows the moment its role was last set is its own "Elevated" line
\* for that role (_totp_dialog, render_sidebar).
ElevationTrail ==
    \A s \in Sessions :
        sess[s].role \in TOTP_PROTECTED_ROLES =>
            /\ since[s] < Len(log)
            /\ log[since[s] + 1].sid = s
            /\ log[since[s] + 1].action = "elevated"
            /\ log[since[s] + 1].role = sess[s].role

-----------------------------------------------------------------------------
(* The inductive invariant behind these properties. *)

\* A standing authorization is the last one the session gave since its role
\* was set, for that role and for the case the session still carries.
GrantStands(s) ==
    sess[s].authorized =>
        \E j \in (since[s] + 1)..Len(log) :
            /\ LastGrant(log, s, j, Len(log) + 1)
            /\ log[j].role = sess[s].role
            /\ log[j].case_id = clean_event_value(sess[s].auth_case)

\* auth_case_id is the case of the last authorization since the session began.
CaseKept(s) ==
    IF sess[s].auth_case = NO_CASE
    THEN \A j \in (born[s] + 1)..Len(log) : ~IsGrant(log[j], s)
    ELSE \E j \in (born[s] + 1)..Len(log) :
            /\ LastGrant(log, s, j, Len(log) + 1)
            /\ log[j].case_id = clean_event_value(sess[s].auth_case)

\* Types, and for each session the audit lines its state rests on.
IInv ==
    /\ TypeOK
    /\ \A s \in Sessions : GrantStands(s)
    /\ \A s \in Sessions : CaseKept(s)
=============================================================================
