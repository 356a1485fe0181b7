--------------------------- MODULE CaseworkProofs ---------------------------
(***************************************************************************)
(* Theorems about what a session keeps of an investigation: its role and   *)
(* the audit log (Session, first part), and its cases, evidence and tables *)
(* (CaseFile, second part).  They hold for any sets of sessions, cases,    *)
(* pages, roles and files, any licence and any bounds.                     *)
(***************************************************************************)
EXTENDS Session, CaseFile, SequenceTheorems, TLAPS


-----------------------------------------------------------------------------
(* What the audit lines are. *)

\* log_event builds a line of the log from the arguments the router gives it.
LEMMA LogEventType ==
    ASSUME NEW s \in Sessions,
           NEW case \in CaseIds \cup {NO_CASE, "system"},
           NEW module \in Pages \cup {"totp", "exporter"},
           NEW action \in {"authorization_granted", "accessed_module",
                           "elevated", "totp_failed", "exported"},
           NEW role \in RoleNames,
           NEW mode \in {OFFLINE_SAFE, LIVE_ANALYSIS}
    PROVE  log_event(s, case, module, action, role, mode) \in LogEntry
  BY DEF log_event, clean_event_value, LogEntry

\* main writes at most one line per run, of the session that runs.
LEMMA RunEntriesType ==
    ASSUME NEW s \in Sessions, NEW x \in SessionState
    PROVE  RunEntries(s, x) \in Seq(LogEntry)
<1>1. x.auth_case \in CaseIds \cup {NO_CASE, "system"} /\ x.page \in Pages
      /\ x.role \in RoleNames /\ x.mode \in {OFFLINE_SAFE, LIVE_ANALYSIS}
  BY DEF SessionState
<1>2. log_event(s, x.auth_case, x.page, "accessed_module", x.role, x.mode)
        \in LogEntry
  BY <1>1, LogEventType
<1>3. QED BY <1>2 DEF RunEntries

\* The landing page is neither locked nor part of a licensed module.
LEMMA FreshType == FreshSession \in SessionState
  BY DEF FreshSession, SessionState, RoleNames, UnprotectedRoles, Pages,
         CorePages, TOTP_PROTECTED_ROLES

\* Step gives the session its new state and extends the log.
LEMMA StepType ==
    ASSUME TypeOK, NEW s \in Sessions, NEW x \in SessionState,
           NEW entries \in Seq(LogEntry), Step(s, x, entries)
    PROVE  /\ sess' \in [Sessions -> SessionState]
           /\ log' \in Seq(LogEntry)
           /\ Len(log) <= Len(log')
<1>1. RunEntries(s, x) \in Seq(LogEntry)
  BY RunEntriesType
<1>2. log' = (log \o entries) \o RunEntries(s, x)
  BY DEF Step
<1>3. log \o entries \in Seq(LogEntry)
  BY DEF TypeOK
<1>4. log' \in Seq(LogEntry)
      /\ Len(log') = Len(log) + Len(entries) + Len(RunEntries(s, x))
  BY <1>1, <1>2, <1>3 DEF TypeOK
<1>5. Len(log) <= Len(log')
  BY <1>1, <1>4 DEF TypeOK
<1>6. sess' \in [Sessions -> SessionState]
  BY DEF Step, TypeOK
<1>7. QED BY <1>4, <1>5, <1>6

\* The log after a step: the old lines, those of the event, and the line of
\* the run that ends it, if that run reached the handler of an audited page.
LEMMA StepLines ==
    ASSUME TypeOK, NEW s \in Sessions, NEW x \in SessionState,
           NEW entries \in Seq(LogEntry), Step(s, x, entries)
    PROVE  /\ \A k \in 1..Len(log) : log'[k] = log[k]
           /\ \A k \in (Len(log) + 1)..(Len(log) + Len(entries)) :
                 log'[k] = entries[k - Len(log)]
           /\ Len(log) + Len(entries) <= Len(log')
           /\ \A k \in (Len(log) + Len(entries) + 1)..Len(log') :
                 /\ k = Len(log')
                 /\ Route(x) = "handler"
                 /\ \/ x.page \in OFFLINE_LOCKED_PAGES
                    \/ PAGE_MODULE_MAP(x.page) = "forensic"
                 /\ log'[k] = log_event(s, x.auth_case, x.page,
                                        "accessed_module", x.role, x.mode)
<1> DEFINE r == RunEntries(s, x)
<1>1. r \in Seq(LogEntry)
  BY RunEntriesType
<1>2. log' = (log \o entries) \o r
  BY DEF Step
<1>3. log \in Seq(LogEntry) /\ log \o entries \in Seq(LogEntry)
      /\ Len(log \o entries) = Len(log) + Len(entries)
      /\ Len(log') = Len(log) + Len(entries) + Len(r)
  BY <1>1, <1>2 DEF TypeOK
<1>4. \A k \in 1..(Len(log) + Len(entries)) : log'[k] = (log \o entries)[k]
  BY <1>1, <1>2, <1>3
<1>5. \A k \in (Len(log) + Len(entries) + 1)..Len(log') :
         log'[k] = r[k - (Len(log) + Len(entries))]
  BY <1>1, <1>2, <1>3
<1>6. r # <<>> => /\ Len(r) = 1
                  /\ Route(x) = "handler"
                  /\ \/ x.page \in OFFLINE_LOCKED_PAGES
                     \/ PAGE_MODULE_MAP(x.page) = "forensic"
                  /\ r[1] = log_event(s, x.auth_case, x.page,
                                      "accessed_module", x.role, x.mode)
  BY DEF RunEntries
<1>7. r = <<>> => Len(r) = 0
  OBVIOUS
<1> HIDE DEF r
<1>8. \A k \in 1..Len(log) : log'[k] = log[k]
  BY <1>3, <1>4
<1>9. \A k \in (Len(log) + 1)..(Len(log) + Len(entries)) :
         log'[k] = entries[k - Len(log)]
  BY <1>3, <1>4
<1>10. ASSUME NEW k \in (Len(log) + Len(entries) + 1)..Len(log')
       PROVE  r # <<>> /\ k = Len(log') /\ log'[k] = r[1]
  BY <1>1, <1>3, <1>5, <1>6, <1>7
<1>11. Len(log) + Len(entries) <= Len(log')
  BY <1>1, <1>3
<1>12. QED BY <1>6, <1>8, <1>9, <1>10, <1>11

-----------------------------------------------------------------------------
(* Authorizations in a log that grows. *)

\* A later line that is not an authorization of s leaves the last one in place.
LEMMA GrantSurvives ==
    ASSUME NEW l, NEW m, NEW n \in Nat, NEW p \in Nat, n <= p,
           NEW s, NEW j \in 1..n,
           \A k \in 1..n : m[k] = l[k],
           \A k \in (n + 1)..p : ~IsGrant(m[k], s),
           LastGrant(l, s, j, n + 1)
    PROVE  LastGrant(m, s, j, p + 1)
<1>1. m[j] = l[j] /\ IsGrant(m[j], s)
  BY DEF LastGrant
<1>2. ASSUME NEW k \in (j + 1)..((p + 1) - 1)
      PROVE  ~IsGrant(m[k], s)
  <2>1. CASE k <= n
    BY <2>1 DEF LastGrant
  <2>2. CASE k > n
    BY <2>2
  <2>3. QED BY <2>1, <2>2
<1>3. QED BY <1>1, <1>2 DEF LastGrant

\* What session t rests on survives a step that adds no authorization of t,
\* keeps its case, and keeps its role if it stays authorized.
LEMMA Kept ==
    ASSUME IInv, NEW t \in Sessions,
           Len(log') \in Nat, Len(log) <= Len(log'),
           \A k \in 1..Len(log) : log'[k] = log[k],
           \A k \in (Len(log) + 1)..Len(log') : ~IsGrant(log'[k], t),
           born'[t] = born[t],
           sess'[t].auth_case = sess[t].auth_case,
           sess'[t].authorized => /\ sess[t].authorized
                                  /\ sess'[t].role = sess[t].role
                                  /\ since'[t] = since[t]
    PROVE  GrantStands(t)' /\ CaseKept(t)'
<1>1. Len(log) \in Nat /\ since[t] \in Nat /\ born[t] \in Nat
  BY DEF IInv, TypeOK
<1>2. ASSUME NEW j \in 1..Len(log), LastGrant(log, t, j, Len(log) + 1)
      PROVE  LastGrant(log', t, j, Len(log') + 1) /\ log'[j] = log[j]
  BY <1>1, <1>2, GrantSurvives
<1>3. GrantStands(t)'
  <2>1. CASE ~sess'[t].authorized
    BY <2>1 DEF GrantStands
  <2>2. CASE sess'[t].authorized
    <3>1. PICK j \in (since[t] + 1)..Len(log) :
            /\ LastGrant(log, t, j, Len(log) + 1)
            /\ log[j].role = sess[t].role
            /\ log[j].case_id = clean_event_value(sess[t].auth_case)
      BY <2>2 DEF IInv, GrantStands
    <3>2. j \in 1..Len(log) /\ j \in (since'[t] + 1)..Len(log')
      BY <1>1, <2>2
    <3>3. QED BY <1>2, <2>2, <3>1, <3>2 DEF GrantStands
  <2>3. QED BY <2>1, <2>2
<1>4. CaseKept(t)'
  <2>1. CASE sess[t].auth_case = NO_CASE
    <3>1. \A j \in (born[t] + 1)..Len(log) : ~IsGrant(log[j], t)
      BY <2>1 DEF IInv, CaseKept
    <3>2. \A j \in (born[t] + 1)..Len(log') : ~IsGrant(log'[j], t)
      BY <1>1, <3>1
    <3>3. QED BY <2>1, <3>2 DEF CaseKept
  <2>2. CASE sess[t].auth_case # NO_CASE
    <3>1. PICK j \in (born[t] + 1)..Len(log) :
            /\ LastGrant(log, t, j, Len(log) + 1)
            /\ log[j].case_id = clean_event_value(sess[t].auth_case)
      BY <2>2 DEF IInv, CaseKept
    <3>2. j \in 1..Len(log) /\ j \in (born'[t] + 1)..Len(log')
      BY <1>1
    <3>3. QED BY <1>2, <2>2, <3>1, <3>2 DEF CaseKept
  <2>3. QED BY <2>1, <2>2
<1>5. QED BY <1>3, <1>4

\* The lines a step of session s adds are those of the event and at most one
\* of main, all of session s.
LEMMA NewLines ==
    ASSUME TypeOK, NEW s \in Sessions, NEW x \in SessionState,
           NEW entries \in Seq(LogEntry), Step(s, x, entries),
           NEW k \in (Len(log) + 1)..Len(log')
    PROVE  \/ /\ k <= Len(log) + Len(entries)
              /\ k - Len(log) \in 1..Len(entries)
              /\ log'[k] = entries[k - Len(log)]
           \/ /\ k = Len(log')
              /\ k > Len(log) + Len(entries)
              /\ log'[k].sid = s
              /\ log'[k].action = "accessed_module"
<1>1. Len(log) \in Nat /\ Len(log') \in Nat /\ Len(entries) \in Nat
  BY StepType DEF TypeOK
<1>2. CASE k <= Len(log) + Len(entries)
  <2>1. k - Len(log) \in 1..Len(entries)
    BY <1>1, <1>2
  <2>2. log'[k] = entries[k - Len(log)]
    BY <1>1, <1>2, StepLines
  <2>3. QED BY <1>2, <2>1, <2>2
<1>3. CASE k > Len(log) + Len(entries)
  <2>1. k = Len(log') /\ log'[k] = log_event(s, x.auth_case, x.page,
                                       "accessed_module", x.role, x.mode)
    BY <1>1, <1>3, StepLines
  <2>2. QED BY <1>3, <2>1 DEF log_event
<1>4. QED BY <1>1, <1>2, <1>3

\* The step of a session does not touch what other sessions rest on.
LEMMA OthersKept ==
    ASSUME IInv, NEW s \in Sessions, NEW x \in SessionState,
           NEW entries \in Seq(LogEntry), Step(s, x, entries),
           \A k \in 1..Len(entries) : entries[k].sid = s,
           NEW t \in Sessions, t # s,
           since'[t] = since[t], born'[t] = born[t]
    PROVE  GrantStands(t)' /\ CaseKept(t)'
<1>1. sess'[t] = sess[t]
  BY DEF Step, IInv, TypeOK
<1>2. Len(log') \in Nat /\ Len(log) <= Len(log')
  BY StepType DEF IInv
<1>3. \A k \in 1..Len(log) : log'[k] = log[k]
  BY StepLines DEF IInv
<1>4. \A k \in (Len(log) + 1)..Len(log') : ~IsGrant(log'[k], t)
  BY NewLines DEF IsGrant, IInv
<1>5. QED BY <1>1, <1>2, <1>3, <1>4, Kept

\* A step that authorizes nothing keeps what its own session rests on.
LEMMA QuietStep ==
    ASSUME IInv, NEW s \in Sessions, NEW x \in SessionState,
           NEW entries \in Seq(LogEntry), Step(s, x, entries),
           \A k \in 1..Len(entries) :
               /\ entries[k].sid = s
               /\ entries[k].action # "authorization_granted",
           x.auth_case = sess[s].auth_case,
           x.authorized => /\ sess[s].authorized
                           /\ x.role = sess[s].role
                           /\ since'[s] = since[s],
           \A t \in Sessions \ {s} : since'[t] = since[t],
           born' = born
    PROVE  \A t \in Sessions : GrantStands(t)' /\ CaseKept(t)'
<1>1. sess'[s] = x
  BY DEF Step, IInv, TypeOK
<1>2. Len(log') \in Nat /\ Len(log) <= Len(log')
  BY StepType DEF IInv
<1>3. \A k \in 1..Len(log) : log'[k] = log[k]
  BY StepLines DEF IInv
<1>4. \A k \in (Len(log) + 1)..Len(log') : ~IsGrant(log'[k], s)
  BY NewLines DEF IsGrant, IInv
<1>5. GrantStands(s)' /\ CaseKept(s)'
  BY <1>1, <1>2, <1>3, <1>4, Kept
<1>6. QED BY <1>5, OthersKept

-----------------------------------------------------------------------------
(* The invariant. *)

\* A step sets the history variables to the length of the log, or leaves them.
LEMMA StepTypeOK ==
    ASSUME TypeOK, NEW s \in Sessions, NEW x \in SessionState,
           NEW entries \in Seq(LogEntry), Step(s, x, entries),
           \/ since' = since /\ born' = born
           \/ since' = [since EXCEPT ![s] = Len(log)] /\ born' = born
           \/ /\ since' = [since EXCEPT ![s] = Len(log)]
              /\ born' = [born EXCEPT ![s] = Len(log)]
    PROVE  TypeOK'
<1>1. /\ sess' \in [Sessions -> SessionState]
      /\ log' \in Seq(LogEntry)
      /\ Len(log) <= Len(log')
  BY StepType
<1>2. Len(log) \in Nat /\ Len(log') \in Nat
  BY <1>1 DEF TypeOK
<1>3. since' \in [Sessions -> Nat] /\ born' \in [Sessions -> Nat]
  BY <1>2 DEF TypeOK
<1>4. \A t \in Sessions : born'[t] <= since'[t] /\ since'[t] <= Len(log')
  BY <1>1, <1>2, <1>3 DEF TypeOK
<1>5. QED BY <1>1, <1>3, <1>4 DEF TypeOK

\* The state SubmitAuthorization rests on is the one it has just written.
LEMMA GrantStep ==
    ASSUME IInv, NEW s \in Sessions, NEW case \in CaseIds,
           SubmitAuthorization(s, case)
    PROVE  IInv'
<1> DEFINE x == [sess[s] EXCEPT !.authorized = TRUE, !.auth_case = case]
           e == log_event(s, case, sess[s].page, "authorization_granted",
                          sess[s].role, sess[s].mode)
<1>1. sess[s] \in SessionState /\ x \in SessionState
  BY DEF IInv, TypeOK, SessionState
<1>2. e \in LogEntry
  BY <1>1, LogEventType DEF SessionState
<1>3. x.authorized /\ x.auth_case = case /\ x.role = sess[s].role
  BY <1>1 DEF SessionState
<1>4. e.sid = s /\ e.action = "authorization_granted"
      /\ e.role = sess[s].role /\ e.case_id = clean_event_value(case)
  BY DEF log_event
<1>5. Step(s, x, <<e>>) /\ since' = since /\ born' = born
  BY DEF SubmitAuthorization
<1> HIDE DEF x, e
<1>6. <<e>> \in Seq(LogEntry) /\ Len(<<e>>) = 1 /\ <<e>>[1] = e
  BY <1>2
<1>7. TypeOK'
  BY <1>1, <1>5, <1>6, StepTypeOK DEF IInv
<1>8. sess'[s] = x
  BY <1>5 DEF Step, IInv, TypeOK
<1> DEFINE n == Len(log) + 1
<1>9. Len(log) \in Nat /\ Len(log') \in Nat /\ n <= Len(log')
      /\ since[s] <= Len(log) /\ born[s] <= Len(log)
      /\ since[s] \in Nat /\ born[s] \in Nat
  <2>1. Len(log) + Len(<<e>>) <= Len(log')
    BY <1>1, <1>5, <1>6, StepLines DEF IInv
  <2>2. QED BY <1>6, <1>7, <2>1 DEF IInv, TypeOK
<1>10. log'[n] = e
  <2>1. n \in (Len(log) + 1)..(Len(log) + Len(<<e>>)) /\ n - Len(log) = 1
    BY <1>6, <1>9
  <2>2. log'[n] = <<e>>[n - Len(log)]
    BY <1>1, <1>5, <1>6, <2>1, StepLines DEF IInv
  <2>3. QED BY <1>6, <2>1, <2>2
<1>11. ASSUME NEW k \in (n + 1)..Len(log')
       PROVE  ~IsGrant(log'[k], s)
  <2>2. log'[k].action = "accessed_module"
    <3>1. k \in (Len(log) + Len(<<e>>) + 1)..Len(log')
      BY <1>6, <1>9
    <3>2. log'[k] = log_event(s, x.auth_case, x.page, "accessed_module",
                              x.role, x.mode)
      BY <1>1, <1>5, <1>6, <3>1, StepLines DEF IInv
    <3>3. QED BY <3>2 DEF log_event
  <2>3. QED BY <2>2 DEF IsGrant
<1>12. LastGrant(log', s, n, Len(log') + 1)
  BY <1>4, <1>9, <1>10, <1>11 DEF LastGrant, IsGrant
<1>13. n \in (since'[s] + 1)..Len(log') /\ n \in (born'[s] + 1)..Len(log')
  BY <1>5, <1>9
<1>14. GrantStands(s)'
  BY <1>3, <1>4, <1>8, <1>10, <1>12, <1>13 DEF GrantStands
<1>15. CaseKept(s)'
  <2>1. case # NO_CASE
    BY SessionAssumption
  <2>2. QED BY <1>3, <1>4, <1>8, <1>10, <1>12, <1>13, <2>1 DEF CaseKept
<1>16. \A k \in 1..Len(<<e>>) : <<e>>[k].sid = s
  BY <1>4, <1>6
<1>17. \A t \in Sessions \ {s} : GrantStands(t)' /\ CaseKept(t)'
  BY <1>1, <1>5, <1>6, <1>16, OthersKept
<1>18. QED BY <1>7, <1>14, <1>15, <1>17 DEF IInv

\* A wiped or reopened session has no authorization and no case.
LEMMA RestartStep ==
    ASSUME IInv, NEW s \in Sessions, Restart(s)
    PROVE  IInv'
<1>1. FreshSession \in SessionState
  BY FreshType
<1>2. <<>> \in Seq(LogEntry) /\ Len(<<>>) = 0
  OBVIOUS
<1>3. Step(s, FreshSession, <<>>)
      /\ since' = [since EXCEPT ![s] = Len(log)]
      /\ born' = [born EXCEPT ![s] = Len(log)]
  BY DEF Restart
<1>4. TypeOK'
  BY <1>1, <1>2, <1>3, StepTypeOK DEF IInv
<1>5. sess'[s] = FreshSession /\ born'[s] = Len(log)
  BY <1>3 DEF Step, IInv, TypeOK
<1>f. FreshSession.authorized = FALSE /\ FreshSession.auth_case = NO_CASE
  BY DEF FreshSession
<1>6. GrantStands(s)'
  BY <1>5, <1>f DEF GrantStands
<1>7. ASSUME NEW k \in (Len(log) + 1)..Len(log')
      PROVE  ~IsGrant(log'[k], s)
  <2>1. Len(log) \in Nat /\ TypeOK
    BY DEF IInv, TypeOK
  <2>2. ~(k <= Len(log) + Len(<<>>))
    BY <1>2, <2>1
  <2>3. log'[k].action = "accessed_module"
    BY <1>1, <1>2, <1>3, <2>1, <2>2, NewLines
  <2>4. QED BY <2>3 DEF IsGrant
<1>8. CaseKept(s)'
  BY <1>5, <1>7, <1>f DEF CaseKept
<1>9. \A t \in Sessions \ {s} : since'[t] = since[t] /\ born'[t] = born[t]
  BY <1>3 DEF IInv, TypeOK
<1>10. \A k \in 1..Len(<<>>) : <<>>[k].sid = s
  BY <1>2
<1>11. \A t \in Sessions \ {s} : GrantStands(t)' /\ CaseKept(t)'
  BY <1>1, <1>2, <1>3, <1>9, <1>10, OthersKept
<1>12. QED BY <1>4, <1>6, <1>8, <1>11 DEF IInv

\* The other events: no authorization is added, and none outlives its role.
LEMMA OtherStep ==
    ASSUME IInv, NEW s \in Sessions, NEW x \in SessionState,
           NEW entries \in Seq(LogEntry), Step(s, x, entries),
           \A k \in 1..Len(entries) :
               /\ entries[k].sid = s
               /\ entries[k].action # "authorization_granted",
           x.auth_case = sess[s].auth_case,
           born' = born,
           \/ /\ since' = since
              /\ x.authorized = sess[s].authorized
              /\ x.role = sess[s].role
           \/ /\ since' = [since EXCEPT ![s] = Len(log)]
              /\ x.authorized = FALSE
    PROVE  IInv'
<1>1. TypeOK'
  BY StepTypeOK DEF IInv
<1>2. \A t \in Sessions \ {s} : since'[t] = since[t]
  BY DEF IInv, TypeOK
<1>3. x.authorized => /\ sess[s].authorized
                      /\ x.role = sess[s].role
                      /\ since'[s] = since[s]
  OBVIOUS
<1>4. QED BY <1>1, <1>2, <1>3, QuietStep DEF IInv

\* Every step of the specification keeps IInv.
LEMMA IInvInductive == IInv /\ [Next]_vars => IInv'
<1> SUFFICES ASSUME IInv, [Next]_vars PROVE IInv'
  OBVIOUS
<1>1. CASE UNCHANGED vars
  <2>1. sess' = sess /\ log' = log /\ since' = since /\ born' = born
    BY <1>1 DEF vars
  <2>2. TypeOK'
    BY <2>1 DEF IInv, TypeOK
  <2>3. \A s \in Sessions : GrantStands(s)'
    BY <2>1 DEF IInv, GrantStands, LastGrant, IsGrant
  <2>4. \A s \in Sessions : CaseKept(s)'
    BY <2>1 DEF IInv, CaseKept, LastGrant, IsGrant
  <2>5. QED BY <2>2, <2>3, <2>4 DEF IInv
<1>2. ASSUME NEW s \in Sessions, SessionNext(s) PROVE IInv'
  <2> DEFINE x0 == sess[s]
  <2>0. x0 \in SessionState /\ <<>> \in Seq(LogEntry)
        /\ \A k \in 1..Len(<<>>) : /\ <<>>[k].sid = s
                                   /\ <<>>[k].action # "authorization_granted"
    BY DEF IInv, TypeOK
  <2>t. x0.role \in RoleNames /\ x0.mode \in {OFFLINE_SAFE, LIVE_ANALYSIS}
        /\ x0.page \in Pages /\ x0.auth_case \in CaseIds \cup {NO_CASE}
        /\ x0.pending \in TOTP_PROTECTED_ROLES \cup {NoRole}
        /\ x0.fails \in Nat
    BY <2>0 DEF SessionState
  <2>e. ASSUME NEW e \in LogEntry, e.sid = s,
               e.action # "authorization_granted"
        PROVE  /\ <<e>> \in Seq(LogEntry)
               /\ \A k \in 1..Len(<<e>>) :
                     /\ <<e>>[k].sid = s
                     /\ <<e>>[k].action # "authorization_granted"
    BY <2>e
  <2>1. CASE SwitchMode(s)
    <3> DEFINE m == IF x0.mode = OFFLINE_SAFE THEN LIVE_ANALYSIS
                    ELSE OFFLINE_SAFE
               x == [x0 EXCEPT !.mode = m]
    <3>1. x \in SessionState /\ x.auth_case = x0.auth_case
          /\ x.authorized = x0.authorized /\ x.role = x0.role
      BY <2>0 DEF SessionState
    <3>2. Step(s, x, <<>>) /\ since' = since /\ born' = born
      BY <2>1 DEF SwitchMode
    <3> HIDE DEF x
    <3>3. QED BY <2>0, <3>1, <3>2, OtherStep
  <2>2. ASSUME NEW r \in UserRoles \ TOTP_PROTECTED_ROLES,
               SelectUnprotectedRole(s, r)
        PROVE  IInv'
    <3> DEFINE x == [x0 EXCEPT !.role = r, !.pending = NoRole,
                               !.authorized = FALSE]
    <3>1. x \in SessionState /\ x.auth_case = x0.auth_case
          /\ x.authorized = FALSE
      BY <2>0, SessionAssumption DEF SessionState
    <3>2. Step(s, x, <<>>) /\ since' = [since EXCEPT ![s] = Len(log)]
          /\ born' = born
      BY <2>2 DEF SelectUnprotectedRole
    <3> HIDE DEF x
    <3>3. QED BY <2>0, <3>1, <3>2, OtherStep
  <2>3. ASSUME NEW r \in TOTP_PROTECTED_ROLES \cup {NoRole},
               \/ RequestProtectedRole(s, r)
               \/ r = NoRole /\ ReselectCurrentRole(s)
        PROVE  IInv'
    <3> DEFINE x == [x0 EXCEPT !.pending = r]
    <3>1. x \in SessionState /\ x.auth_case = x0.auth_case
          /\ x.authorized = x0.authorized /\ x.role = x0.role
      BY <2>0 DEF SessionState
    <3>2. Step(s, x, <<>>) /\ since' = since /\ born' = born
      BY <2>3 DEF RequestProtectedRole, ReselectCurrentRole
    <3> HIDE DEF x
    <3>3. QED BY <2>0, <3>1, <3>2, OtherStep
  <2>4. ASSUME NEW p \in Pages, Navigate(s, p) PROVE IInv'
    <3> DEFINE x == [x0 EXCEPT !.page = p]
    <3>1. x \in SessionState /\ x.auth_case = x0.auth_case
          /\ x.authorized = x0.authorized /\ x.role = x0.role
      BY <2>0 DEF SessionState
    <3>2. Step(s, x, <<>>) /\ since' = since /\ born' = born
      BY <2>4 DEF Navigate
    <3> HIDE DEF x
    <3>3. QED BY <2>0, <3>1, <3>2, OtherStep
  <2>5. CASE VerifyCode(s)
    <3> DEFINE x == [x0 EXCEPT !.role = x0.pending, !.pending = NoRole,
                               !.fails = 0, !.authorized = FALSE]
               e == log_event(s, "system", "totp", "elevated",
                              x0.pending, x0.mode)
    <3>1. x0.pending \in RoleNames
      BY <2>5, <2>t DEF VerifyCode, RoleNames
    <3>2. x \in SessionState /\ x.auth_case = x0.auth_case
          /\ x.authorized = FALSE
      BY <2>0, <3>1 DEF SessionState
    <3>3. e \in LogEntry
      BY <2>t, <3>1, LogEventType
    <3>4. e.sid = s /\ e.action # "authorization_granted"
      BY DEF log_event
    <3>5. Step(s, x, <<e>>) /\ since' = [since EXCEPT ![s] = Len(log)]
          /\ born' = born
      BY <2>5 DEF VerifyCode
    <3> HIDE DEF x, e
    <3>6. QED BY <2>e, <3>2, <3>3, <3>4, <3>5, OtherStep
  <2>6. CASE RejectCode(s)
    <3> DEFINE f == x0.fails + 1
               b == x0.fails + 1 >= 3
               x == [x0 EXCEPT !.fails = f, !.locked = b]
               e == log_event(s, "system", "totp", "totp_failed",
                              x0.role, x0.mode)
    <3>1. x \in SessionState /\ x.auth_case = x0.auth_case
          /\ x.authorized = x0.authorized /\ x.role = x0.role
      <4>1. b \in BOOLEAN /\ f \in Nat
        BY <2>t
      <4> HIDE DEF b, f
      <4>2. QED BY <2>0, <2>t, <4>1 DEF SessionState
    <3>2. e \in LogEntry
      BY <2>t, LogEventType
    <3>3. e.sid = s /\ e.action # "authorization_granted"
      BY DEF log_event
    <3>4. Step(s, x, <<e>>) /\ since' = since /\ born' = born
      BY <2>6 DEF RejectCode
    <3> HIDE DEF x, e
    <3>5. QED BY <2>e, <3>1, <3>2, <3>3, <3>4, OtherStep
  <2>7. CASE CancelDialog(s)
    <3> DEFINE x == [x0 EXCEPT !.pending = NoRole, !.fails = 0]
    <3>1. x \in SessionState /\ x.auth_case = x0.auth_case
          /\ x.authorized = x0.authorized /\ x.role = x0.role
      BY <2>0 DEF SessionState
    <3>2. Step(s, x, <<>>) /\ since' = since /\ born' = born
      BY <2>7 DEF CancelDialog
    <3> HIDE DEF x
    <3>3. QED BY <2>0, <3>1, <3>2, OtherStep
  <2>8. CASE LockExpires(s)
    <3>1. sess' = [sess EXCEPT ![s].locked = FALSE]
          /\ log' = log /\ since' = since /\ born' = born
      BY <2>8 DEF LockExpires
    <3>2. TypeOK'
      <4>1. sess \in [Sessions -> SessionState] /\ sess[s] \in SessionState
        BY DEF IInv, TypeOK
      <4>2. [sess[s] EXCEPT !.locked = FALSE] \in SessionState
        BY <4>1 DEF SessionState
      <4>3. sess' \in [Sessions -> SessionState]
        BY <3>1, <4>1, <4>2
      <4>4. QED BY <3>1, <4>3 DEF IInv, TypeOK
    <3>3. \A t \in Sessions : /\ sess'[t].authorized = sess[t].authorized
                              /\ sess'[t].auth_case = sess[t].auth_case
                              /\ sess'[t].role = sess[t].role
      BY <3>1 DEF IInv, TypeOK, SessionState
    <3>4. QED BY <3>1, <3>2, <3>3
              DEF IInv, GrantStands, CaseKept, LastGrant, IsGrant
  <2>9. CASE Interact(s)
    <3>1. Step(s, x0, <<>>) /\ since' = since /\ born' = born
      BY <2>9 DEF Interact
    <3>2. QED BY <2>0, <3>1, OtherStep
  <2>10. ASSUME NEW p \in Pages, LaunchTool(s, p) PROVE IInv'
    <3> DEFINE x == [x0 EXCEPT !.page = p]
               es == RunEntries(s, x0)
    <3>1. x \in SessionState /\ x.auth_case = x0.auth_case
          /\ x.authorized = x0.authorized /\ x.role = x0.role
      BY <2>0 DEF SessionState
    <3>2. Step(s, x, es) /\ since' = since /\ born' = born
      BY <2>10 DEF LaunchTool
    <3>3. es \in Seq(LogEntry)
      BY <2>0, RunEntriesType
    <3>4. \A k \in 1..Len(es) : /\ es[k].sid = s
                                /\ es[k].action # "authorization_granted"
      BY DEF RunEntries, log_event
    <3> HIDE DEF x, es
    <3>5. QED BY <3>1, <3>2, <3>3, <3>4, OtherStep
  <2>11. CASE ExportReport(s)
    <3> DEFINE e == log_event(s, x0.auth_case, "exporter", "exported",
                              x0.role, x0.mode)
    <3>1. e \in LogEntry
      BY <2>t, LogEventType
    <3>2. e.sid = s /\ e.action # "authorization_granted"
      BY DEF log_event
    <3>3. Step(s, x0, <<e>>) /\ since' = since /\ born' = born
      BY <2>11 DEF ExportReport
    <3> HIDE DEF e
    <3>4. QED BY <2>0, <2>e, <3>1, <3>2, <3>3, OtherStep
  <2>12. CASE WipeSession(s) \/ ReopenTab(s)
    BY <2>12, RestartStep DEF WipeSession, ReopenTab
  <2>13. QED
    BY <1>2, <2>1, <2>2, <2>3, <2>4, <2>5, <2>6, <2>7, <2>8, <2>9, <2>10,
       <2>11, <2>12, GrantStep, SessionAssumption DEF SessionNext
<1>3. QED BY <1>1, <1>2 DEF Next

\* The initial state, with an empty log and fresh sessions, satisfies IInv.
LEMMA InitIInv == Init => IInv
<1> SUFFICES ASSUME Init PROVE IInv
  OBVIOUS
<1>1. TypeOK
  BY FreshType DEF Init, TypeOK
<1>2. \A s \in Sessions : GrantStands(s) /\ CaseKept(s)
  <2> SUFFICES ASSUME NEW s \in Sessions PROVE GrantStands(s) /\ CaseKept(s)
    OBVIOUS
  <2>1. sess[s] = FreshSession /\ log = <<>> /\ born[s] = 0
    BY DEF Init
  <2>2. FreshSession.authorized = FALSE /\ FreshSession.auth_case = NO_CASE
    BY DEF FreshSession
  <2>3. (born[s] + 1)..Len(log) = {}
    BY <2>1
  <2>4. QED BY <2>1, <2>2, <2>3 DEF GrantStands, CaseKept
<1>3. QED BY <1>1, <1>2 DEF IInv

\* In every reachable state the standing authorization and the case of each
\* session are those of its own lines in the audit log.
THEOREM AuthorizationsBacked == Spec => []IInv
  BY InitIInv, IInvInductive, PTL DEF Spec

\* The router's state and the audit log keep their types.
THEOREM TypeCorrect == Spec => []TypeOK
<1>1. IInv => TypeOK
  BY DEF IInv
<1>2. QED BY <1>1, AuthorizationsBacked, PTL

-----------------------------------------------------------------------------
(* Access to locked pages. *)

\* main reaches the handler of a locked page only offline and authorized.
LEMMA RouteHandler ==
    ASSUME NEW x \in SessionState, Route(x) = "handler",
           x.page \in OFFLINE_LOCKED_PAGES
    PROVE  x.authorized /\ x.mode = OFFLINE_SAFE
<1>1. x.mode \in {OFFLINE_SAFE, LIVE_ANALYSIS} /\ x.authorized \in BOOLEAN
  BY DEF SessionState
<1>2. CASE ~x.authorized
  BY <1>2 DEF Route
<1>3. CASE x.mode = LIVE_ANALYSIS
  BY <1>3 DEF Route
<1>4. QED BY <1>1, <1>2, <1>3

\* The audit name of a forensic page that is not locked is not that of a
\* locked page.
LEMMA ForensicNames ==
    ASSUME NEW page \in Pages, PAGE_MODULE_MAP(page) = "forensic",
           clean_event_value(page) \in LockedModules
    PROVE  page \in OFFLINE_LOCKED_PAGES
<1> SUFFICES ASSUME page \notin OFFLINE_LOCKED_PAGES PROVE FALSE
  OBVIOUS
<1>1. page \in {"Case Management", "Evidence Hash Checker"}
  BY DEF PAGE_MODULE_MAP, OFFLINE_LOCKED_PAGES
<1>2. clean_event_value(page) = page
  BY <1>1, SessionAssumption DEF clean_event_value, RedactedPages
<1>3. PICK p \in OFFLINE_LOCKED_PAGES : clean_event_value(p) = page
  BY <1>2 DEF LockedModules
<1>4. clean_event_value(p) \in {p, REDACTED}
  BY DEF clean_event_value
<1>5. page # REDACTED
  BY <1>1 DEF REDACTED
<1>6. QED BY <1>3, <1>4, <1>5

\* The line of the run that ends a step, if it is an access to a locked page,
\* is backed by the authorization the session holds after the step.
LEMMA RunLineBacked ==
    ASSUME TypeOK, TypeOK', NEW s \in Sessions,
           NEW entries \in Seq(LogEntry), Step(s, sess'[s], entries),
           GrantStands(s)',
           NEW i \in (Len(log) + Len(entries) + 1)..Len(log'),
           LockedAccess(log'[i])
    PROVE  /\ log'[i].mode = OFFLINE_SAFE
           /\ Backed(log', since'[log'[i].sid], i)
<1> DEFINE x == sess'[s]
<1>1. x \in SessionState
  BY DEF TypeOK
<1>2. /\ i = Len(log')
      /\ Route(x) = "handler"
      /\ x.page \in OFFLINE_LOCKED_PAGES \/ PAGE_MODULE_MAP(x.page) = "forensic"
      /\ log'[i] = log_event(s, x.auth_case, x.page, "accessed_module",
                             x.role, x.mode)
  BY <1>1, StepLines
<1>3. /\ log'[i].sid = s
      /\ log'[i].action = "accessed_module"
      /\ log'[i].module = clean_event_value(x.page)
      /\ log'[i].case_id = clean_event_value(x.auth_case)
      /\ log'[i].role = x.role
      /\ log'[i].mode = x.mode
  BY <1>2 DEF log_event
<1>4. x.page \in OFFLINE_LOCKED_PAGES
  <2>1. x.page \in Pages
    BY <1>1 DEF SessionState
  <2>2. clean_event_value(x.page) \in LockedModules
    BY <1>3 DEF LockedAccess
  <2>3. QED BY <1>2, <2>1, <2>2, ForensicNames
<1>5. x.authorized /\ x.mode = OFFLINE_SAFE
  BY <1>1, <1>2, <1>4, RouteHandler
<1>6. PICK j \in (since'[s] + 1)..Len(log') :
        /\ LastGrant(log', s, j, Len(log') + 1)
        /\ log'[j].role = x.role
        /\ log'[j].case_id = clean_event_value(x.auth_case)
  BY <1>5 DEF GrantStands
<1>7. Len(log') \in Nat /\ since'[s] \in Nat
  BY DEF TypeOK
<1>8. j # i
  BY <1>3, <1>6 DEF LastGrant, IsGrant
<1>9. j \in (since'[s] + 1)..(i - 1)
  BY <1>2, <1>6, <1>7, <1>8
<1>10. LastGrant(log', s, j, i)
  BY <1>2, <1>6, <1>7, <1>9 DEF LastGrant
<1>11. QED BY <1>3, <1>5, <1>6, <1>9, <1>10 DEF Backed

\* What the event of a step adds before main runs: nothing, a line that is
\* not an access, or (recovery selector) the access line of the run that
\* handled the click.
LEMMA EventLines ==
    ASSUME IInv, TypeOK', NEW s \in Sessions, SessionNext(s), log' # log
    PROVE  \E entries \in Seq(LogEntry) :
              /\ Step(s, sess'[s], entries)
              /\ \/ \A k \in 1..Len(entries) :
                       entries[k].action # "accessed_module"
                 \/ entries = RunEntries(s, sess[s]) /\ since' = since
<1> DEFINE x0 == sess[s]
           Shape(entries) ==
              /\ Step(s, sess'[s], entries)
              /\ \/ \A k \in 1..Len(entries) :
                       entries[k].action # "accessed_module"
                 \/ entries = RunEntries(s, sess[s]) /\ since' = since
<1>0. x0 \in SessionState
  BY DEF IInv, TypeOK
<1>t. x0.role \in RoleNames /\ x0.mode \in {OFFLINE_SAFE, LIVE_ANALYSIS}
      /\ x0.page \in Pages /\ x0.auth_case \in CaseIds \cup {NO_CASE, "system"}
      /\ x0.pending \in TOTP_PROTECTED_ROLES \cup {NoRole}
  BY <1>0 DEF SessionState
<1>x. ASSUME NEW x, NEW entries, Step(s, x, entries)
      PROVE  Step(s, sess'[s], entries)
  <2>1. sess'[s] = x
    BY <1>x DEF Step, IInv, TypeOK
  <2>2. QED BY <1>x, <2>1
<1>n. ASSUME NEW x, Step(s, x, <<>>)
      PROVE  \E entries \in Seq(LogEntry) : Shape(entries)
  <2>1. <<>> \in Seq(LogEntry) /\ Len(<<>>) = 0
    OBVIOUS
  <2>2. Shape(<<>>)
    BY <1>n, <1>x, <2>1
  <2> HIDE DEF Shape
  <2>3. QED BY <2>1, <2>2
<1>e. ASSUME NEW x, NEW e \in LogEntry, Step(s, x, <<e>>),
             e.action # "accessed_module"
      PROVE  \E entries \in Seq(LogEntry) : Shape(entries)
  <2>1. <<e>> \in Seq(LogEntry) /\ Len(<<e>>) = 1 /\ <<e>>[1] = e
    OBVIOUS
  <2>2. Shape(<<e>>)
    BY <1>e, <1>x, <2>1
  <2> HIDE DEF Shape
  <2>3. QED BY <2>1, <2>2
<1> HIDE DEF Shape
<1> SUFFICES \E entries \in Seq(LogEntry) : Shape(entries)
  BY DEF Shape
<1>1. CASE \/ SwitchMode(s) \/ CancelDialog(s) \/ Interact(s)
           \/ ReselectCurrentRole(s) \/ WipeSession(s) \/ ReopenTab(s)
           \/ \E r : SelectUnprotectedRole(s, r)
           \/ \E r : RequestProtectedRole(s, r)
           \/ \E p : Navigate(s, p)
  <2>1. \E x : Step(s, x, <<>>)
    <3>1. CASE SwitchMode(s) \/ CancelDialog(s) \/ Interact(s)
      BY <3>1 DEF SwitchMode, CancelDialog, Interact
    <3>2. CASE ReselectCurrentRole(s) \/ WipeSession(s) \/ ReopenTab(s)
      BY <3>2 DEF ReselectCurrentRole, WipeSession, ReopenTab, Restart
    <3>3. CASE \E r : SelectUnprotectedRole(s, r)
      BY <3>3 DEF SelectUnprotectedRole
    <3>4. CASE \E r : RequestProtectedRole(s, r)
      BY <3>4 DEF RequestProtectedRole
    <3>5. CASE \E p : Navigate(s, p)
      BY <3>5 DEF Navigate
    <3>6. QED BY <1>1, <3>1, <3>2, <3>3, <3>4, <3>5
  <2>2. QED BY <1>n, <2>1
<1>2. CASE VerifyCode(s)
  <2> DEFINE e == log_event(s, "system", "totp", "elevated",
                            x0.pending, x0.mode)
  <2>1. x0.pending \in RoleNames
    BY <1>2, <1>t DEF VerifyCode, RoleNames
  <2>2. e \in LogEntry
    BY <1>t, <2>1, LogEventType
  <2>3. e.action # "accessed_module"
    BY DEF log_event
  <2>4. \E x : Step(s, x, <<e>>)
    BY <1>2 DEF VerifyCode
  <2> HIDE DEF e
  <2>5. QED BY <1>e, <2>2, <2>3, <2>4
<1>3. CASE RejectCode(s)
  <2> DEFINE e == log_event(s, "system", "totp", "totp_failed",
                            x0.role, x0.mode)
  <2>1. e \in LogEntry
    BY <1>t, LogEventType
  <2>2. e.action # "accessed_module"
    BY DEF log_event
  <2>3. \E x : Step(s, x, <<e>>)
    BY <1>3 DEF RejectCode
  <2> HIDE DEF e
  <2>4. QED BY <1>e, <2>1, <2>2, <2>3
<1>4. ASSUME NEW case \in CaseIds, SubmitAuthorization(s, case)
      PROVE  \E entries \in Seq(LogEntry) : Shape(entries)
  <2> DEFINE e == log_event(s, case, x0.page, "authorization_granted",
                            x0.role, x0.mode)
  <2>1. e \in LogEntry
    BY <1>t, LogEventType
  <2>2. e.action # "accessed_module"
    BY DEF log_event
  <2>3. \E x : Step(s, x, <<e>>)
    BY <1>4 DEF SubmitAuthorization
  <2> HIDE DEF e
  <2>4. QED BY <1>e, <2>1, <2>2, <2>3
<1>5. CASE ExportReport(s)
  <2> DEFINE e == log_event(s, x0.auth_case, "exporter", "exported",
                            x0.role, x0.mode)
  <2>1. e \in LogEntry
    BY <1>t, LogEventType
  <2>2. e.action # "accessed_module"
    BY DEF log_event
  <2>3. \E x : Step(s, x, <<e>>)
    BY <1>5 DEF ExportReport
  <2> HIDE DEF e
  <2>4. QED BY <1>e, <2>1, <2>2, <2>3
<1>6. ASSUME NEW p, LaunchTool(s, p)
      PROVE  \E entries \in Seq(LogEntry) : Shape(entries)
  <2> DEFINE es == RunEntries(s, sess[s])
  <2>1. es \in Seq(LogEntry)
    BY <1>0, RunEntriesType
  <2>2. Step(s, [x0 EXCEPT !.page = p], es) /\ since' = since
    BY <1>6 DEF LaunchTool
  <2>3. Step(s, sess'[s], es)
    BY <2>2, <1>x
  <2>4. Shape(es)
    BY <2>2, <2>3 DEF Shape
  <2> HIDE DEF es
  <2>5. QED BY <2>1, <2>4
<1>7. CASE LockExpires(s)
  BY <1>7 DEF LockExpires
<1>8. QED
  BY <1>1, <1>2, <1>3, <1>4, <1>5, <1>6, <1>7 DEF SessionNext

\* Every new access line of a step is backed.
LEMMA AccessStep ==
    ASSUME IInv, IInv', NEW s \in Sessions, SessionNext(s),
           NEW i \in (Len(log) + 1)..Len(log'), LockedAccess(log'[i])
    PROVE  /\ log'[i].mode = OFFLINE_SAFE
           /\ Backed(log', since'[log'[i].sid], i)
<1>1. TypeOK /\ TypeOK' /\ GrantStands(s) /\ GrantStands(s)'
      /\ sess[s] \in SessionState /\ sess'[s] \in SessionState
  BY DEF IInv, TypeOK
<1>2. Len(log) \in Nat /\ Len(log') \in Nat
  BY <1>1 DEF TypeOK
<1>3. log' # log
  BY <1>2
<1>4. PICK entries \in Seq(LogEntry) :
         /\ Step(s, sess'[s], entries)
         /\ \/ \A k \in 1..Len(entries) :
                  entries[k].action # "accessed_module"
            \/ entries = RunEntries(s, sess[s]) /\ since' = since
  BY <1>1, <1>3, EventLines
<1>5. Len(entries) \in Nat
  OBVIOUS
<1>6. CASE i > Len(log) + Len(entries)
  <2>1. i \in (Len(log) + Len(entries) + 1)..Len(log')
    BY <1>2, <1>5, <1>6
  <2>2. QED BY <1>1, <1>4, <2>1, RunLineBacked
<1>7. CASE i <= Len(log) + Len(entries)
  <2>1. i - Len(log) \in 1..Len(entries)
        /\ i \in (Len(log) + 1)..(Len(log) + Len(entries))
    BY <1>2, <1>5, <1>7
  <2>2. log'[i] = entries[i - Len(log)]
    BY <1>1, <1>4, <2>1, StepLines
  <2>3. entries = RunEntries(s, sess[s]) /\ since' = since
    BY <1>4, <2>1, <2>2 DEF LockedAccess
  <2> DEFINE x == sess[s]
             e == log_event(s, x.auth_case, x.page, "accessed_module",
                            x.role, x.mode)
  <2>4. /\ Route(x) = "handler"
        /\ x.page \in OFFLINE_LOCKED_PAGES
           \/ PAGE_MODULE_MAP(x.page) = "forensic"
        /\ entries = <<e>>
    <3>1. entries # <<>>
      BY <2>1
    <3>2. QED BY <2>3, <3>1 DEF RunEntries
  <2>5. Len(entries) = 1 /\ entries[1] = e
    BY <2>4
  <2>6. i = Len(log) + 1 /\ log'[i] = e
    BY <1>2, <2>1, <2>2, <2>5
  <2>7. /\ e.sid = s
        /\ e.module = clean_event_value(x.page)
        /\ e.case_id = clean_event_value(x.auth_case)
        /\ e.role = x.role
        /\ e.mode = x.mode
    BY DEF log_event
  <2> HIDE DEF e
  <2>8. x.page \in OFFLINE_LOCKED_PAGES
    <3>1. x.page \in Pages
      BY <1>1 DEF SessionState
    <3>2. clean_event_value(x.page) \in LockedModules
      BY <2>6, <2>7 DEF LockedAccess
    <3>3. QED BY <2>4, <3>1, <3>2, ForensicNames
  <2>9. x.authorized /\ x.mode = OFFLINE_SAFE
    BY <1>1, <2>4, <2>8, RouteHandler
  <2>10. PICK j \in (since[s] + 1)..Len(log) :
          /\ LastGrant(log, s, j, Len(log) + 1)
          /\ log[j].role = x.role
          /\ log[j].case_id = clean_event_value(x.auth_case)
    BY <1>1, <2>9 DEF GrantStands
  <2>11. since[s] \in Nat /\ \A k \in 1..Len(log) : log'[k] = log[k]
    BY <1>1, <1>4, StepLines DEF TypeOK
  <2>12. j \in (since'[s] + 1)..(i - 1) /\ log'[j] = log[j]
    BY <1>2, <2>3, <2>6, <2>10, <2>11
  <2>13. LastGrant(log', s, j, i)
    <3>1. IsGrant(log'[j], s)
      BY <2>10, <2>12 DEF LastGrant
    <3>2. ASSUME NEW k \in (j + 1)..(i - 1) PROVE ~IsGrant(log'[k], s)
      <4>1. k \in (j + 1)..((Len(log) + 1) - 1)
        BY <2>6
      <4>2. k \in 1..Len(log)
        BY <2>11, <4>1
      <4>3. ~IsGrant(log[k], s)
        BY <2>10, <4>1 DEF LastGrant
      <4>4. QED BY <2>11, <4>2, <4>3
    <3>3. QED BY <3>1, <3>2 DEF LastGrant
  <2>14. QED BY <2>6, <2>7, <2>9, <2>10, <2>12, <2>13 DEF Backed
<1>8. QED BY <1>2, <1>5, <1>6, <1>7

\* No session enters a locked page outside OFFLINE SAFE mode, or without an
\* authorization that its audit line, its role and its case still match.
THEOREM LockedPagesGuarded == Spec => LockedAccessAuthorized
<1> DEFINE A == \A i \in (Len(log) + 1)..Len(log') :
                   LockedAccess(log'[i]) =>
                       /\ log'[i].mode = OFFLINE_SAFE
                       /\ Backed(log', since'[log'[i].sid], i)
<1>1. IInv /\ IInv' /\ [Next]_vars => [A]_vars
  BY AccessStep DEF Next
<1>2. QED BY <1>1, AuthorizationsBacked, PTL DEF Spec, LockedAccessAuthorized

-----------------------------------------------------------------------------
(* The case on a line. *)

\* If c is the case of the last authorization of s before line i, or NO_CASE
\* when there is none, it is the case the audit trail gives line i.
LEMMA Attributed ==
    ASSUME NEW l, NEW s, NEW lo \in Nat, NEW i \in Nat, NEW c,
           \/ c = NO_CASE /\ \A j \in (lo + 1)..(i - 1) : ~IsGrant(l[j], s)
           \/ \E j \in (lo + 1)..(i - 1) : LastGrant(l, s, j, i) /\ l[j].case_id = c
    PROVE  LET grants == {j \in (lo + 1)..(i - 1) : LastGrant(l, s, j, i)}
           IN IF grants = {} THEN c = NO_CASE ELSE \A j \in grants : c = l[j].case_id
<1> DEFINE grants == {j \in (lo + 1)..(i - 1) : LastGrant(l, s, j, i)}
<1>1. CASE c = NO_CASE /\ \A j \in (lo + 1)..(i - 1) : ~IsGrant(l[j], s)
  <2>1. grants = {}
    BY <1>1 DEF LastGrant
  <2>2. QED BY <1>1, <2>1
<1>2. ASSUME NEW j \in (lo + 1)..(i - 1), LastGrant(l, s, j, i), l[j].case_id = c
      PROVE  grants # {} /\ \A k \in grants : c = l[k].case_id
  <2>1. ASSUME NEW k \in grants PROVE k = j
    <3>1. LastGrant(l, s, k, i) /\ k \in (lo + 1)..(i - 1)
      OBVIOUS
    <3>2. ~(k < j)
      BY <1>2, <3>1 DEF LastGrant
    <3>3. ~(j < k)
      BY <1>2, <3>1 DEF LastGrant
    <3>4. QED BY <3>1, <3>2, <3>3
  <2>2. QED BY <1>2, <2>1
<1>3. QED BY <1>1, <1>2

\* "NO_CASE" is not redacted.
LEMMA NoCaseClear == clean_event_value(NO_CASE) = NO_CASE
  BY SessionAssumption DEF clean_event_value, RedactedPages, NO_CASE

\* An access or export line that an event adds carries the case the session
\* had before the event.
LEMMA EventCases ==
    ASSUME IInv, TypeOK', NEW s \in Sessions, SessionNext(s), log' # log
    PROVE  \E entries \in Seq(LogEntry) :
              /\ Step(s, sess'[s], entries)
              /\ \A k \in 1..Len(entries) :
                    entries[k].action \in {"accessed_module", "exported"} =>
                        /\ Len(entries) = 1
                        /\ entries[k].sid = s
                        /\ entries[k].case_id = clean_event_value(sess[s].auth_case)
                        /\ born' = born
<1> DEFINE x0 == sess[s]
           Lines == {"accessed_module", "exported"}
           Carries(e) == /\ e.sid = s
                         /\ e.case_id = clean_event_value(x0.auth_case)
                         /\ born' = born
           Shape(entries) ==
              /\ Step(s, sess'[s], entries)
              /\ \A k \in 1..Len(entries) :
                    entries[k].action \in Lines => Len(entries) = 1 /\ Carries(entries[k])
<1>0. x0 \in SessionState
  BY DEF IInv, TypeOK
<1>t. x0.role \in RoleNames /\ x0.mode \in {OFFLINE_SAFE, LIVE_ANALYSIS}
      /\ x0.page \in Pages /\ x0.auth_case \in CaseIds \cup {NO_CASE, "system"}
      /\ x0.pending \in TOTP_PROTECTED_ROLES \cup {NoRole}
  BY <1>0 DEF SessionState
<1>x. ASSUME NEW x, NEW entries, Step(s, x, entries)
      PROVE  Step(s, sess'[s], entries)
  <2>1. sess'[s] = x
    BY <1>x DEF Step, IInv, TypeOK
  <2>2. QED BY <1>x, <2>1
<1>n. ASSUME NEW x, Step(s, x, <<>>)
      PROVE  \E entries \in Seq(LogEntry) : Shape(entries)
  <2>1. <<>> \in Seq(LogEntry) /\ Len(<<>>) = 0
    OBVIOUS
  <2>2. Shape(<<>>)
    BY <1>n, <1>x, <2>1
  <2> HIDE DEF Shape
  <2>3. QED BY <2>1, <2>2
<1>e. ASSUME NEW x, NEW e \in LogEntry, Step(s, x, <<e>>),
             e.action \in Lines => Carries(e)
      PROVE  \E entries \in Seq(LogEntry) : Shape(entries)
  <2>1. <<e>> \in Seq(LogEntry) /\ Len(<<e>>) = 1 /\ <<e>>[1] = e
    OBVIOUS
  <2>2. Step(s, sess'[s], <<e>>)
    BY <1>e, <1>x
  <2>3. Shape(<<e>>)
    <3> HIDE DEF Carries, Lines
    <3>1. QED BY <1>e, <2>1, <2>2
  <2> HIDE DEF Shape
  <2>4. QED BY <2>1, <2>3
<1> HIDE DEF Shape
<1> SUFFICES \E entries \in Seq(LogEntry) : Shape(entries)
  BY DEF Shape
<1>1. CASE \/ SwitchMode(s) \/ CancelDialog(s) \/ Interact(s)
           \/ ReselectCurrentRole(s) \/ WipeSession(s) \/ ReopenTab(s)
           \/ \E r : SelectUnprotectedRole(s, r)
           \/ \E r : RequestProtectedRole(s, r)
           \/ \E p : Navigate(s, p)
  <2>1. \E x : Step(s, x, <<>>)
    <3>1. CASE SwitchMode(s) \/ CancelDialog(s) \/ Interact(s)
      BY <3>1 DEF SwitchMode, CancelDialog, Interact
    <3>2. CASE ReselectCurrentRole(s) \/ WipeSession(s) \/ ReopenTab(s)
      BY <3>2 DEF ReselectCurrentRole, WipeSession, ReopenTab, Restart
    <3>3. CASE \E r : SelectUnprotectedRole(s, r)
      BY <3>3 DEF SelectUnprotectedRole
    <3>4. CASE \E r : RequestProtectedRole(s, r)
      BY <3>4 DEF RequestProtectedRole
    <3>5. CASE \E p : Navigate(s, p)
      BY <3>5 DEF Navigate
    <3>6. QED BY <1>1, <3>1, <3>2, <3>3, <3>4, <3>5
  <2>2. QED BY <1>n, <2>1
<1>2. CASE VerifyCode(s) \/ RejectCode(s) \/ \E case \in CaseIds : SubmitAuthorization(s, case)
  <2>1. \E x, e : /\ e \in LogEntry /\ Step(s, x, <<e>>) /\ e.action \notin Lines
    <3>1. CASE VerifyCode(s)
      <4> DEFINE e == log_event(s, "system", "totp", "elevated", x0.pending, x0.mode)
      <4>1. x0.pending \in RoleNames
        BY <3>1, <1>t DEF VerifyCode, RoleNames
      <4>2. e \in LogEntry
        BY <1>t, <4>1, LogEventType
      <4>3. e.action \notin Lines
        BY DEF log_event
      <4>4. \E x : Step(s, x, <<e>>)
        BY <3>1 DEF VerifyCode
      <4> HIDE DEF e
      <4>5. QED BY <4>2, <4>3, <4>4
    <3>2. CASE RejectCode(s)
      <4> DEFINE e == log_event(s, "system", "totp", "totp_failed", x0.role, x0.mode)
      <4>1. e \in LogEntry
        BY <1>t, LogEventType
      <4>2. e.action \notin Lines
        BY DEF log_event
      <4>3. \E x : Step(s, x, <<e>>)
        BY <3>2 DEF RejectCode
      <4> HIDE DEF e
      <4>4. QED BY <4>1, <4>2, <4>3
    <3>3. ASSUME NEW case \in CaseIds, SubmitAuthorization(s, case)
          PROVE  \E x, e : e \in LogEntry /\ Step(s, x, <<e>>) /\ e.action \notin Lines
      <4> DEFINE e == log_event(s, case, x0.page, "authorization_granted",
                                x0.role, x0.mode)
      <4>1. e \in LogEntry
        BY <1>t, LogEventType
      <4>2. e.action \notin Lines
        BY DEF log_event
      <4>3. \E x : Step(s, x, <<e>>)
        BY <3>3 DEF SubmitAuthorization
      <4> HIDE DEF e
      <4>4. QED BY <4>1, <4>2, <4>3
    <3>4. QED BY <1>2, <3>1, <3>2, <3>3
  <2>2. QED BY <1>e, <2>1
<1>3. CASE ExportReport(s)
  <2> DEFINE e == log_event(s, x0.auth_case, "exporter", "exported", x0.role, x0.mode)
  <2>1. e \in LogEntry
    BY <1>t, LogEventType
  <2>2. Carries(e)
    BY <1>3 DEF log_event, ExportReport
  <2>3. \E x : Step(s, x, <<e>>)
    BY <1>3 DEF ExportReport
  <2> HIDE DEF e, Carries
  <2>4. QED BY <1>e, <2>1, <2>2, <2>3
<1>4. ASSUME NEW p, LaunchTool(s, p)
      PROVE  \E entries \in Seq(LogEntry) : Shape(entries)
  <2> DEFINE e == log_event(s, x0.auth_case, x0.page, "accessed_module", x0.role, x0.mode)
  <2>1. e \in LogEntry
    BY <1>t, LogEventType
  <2>2. Carries(e)
    BY <1>4 DEF log_event, LaunchTool
  <2>3. Step(s, [x0 EXCEPT !.page = p], RunEntries(s, x0))
    BY <1>4 DEF LaunchTool
  <2>4. RunEntries(s, x0) = <<>> \/ RunEntries(s, x0) = <<e>>
    BY DEF RunEntries
  <2> HIDE DEF e, Carries
  <2>5. QED BY <1>e, <1>n, <2>1, <2>2, <2>3, <2>4
<1>5. CASE LockExpires(s)
  BY <1>5 DEF LockExpires
<1>6. QED BY <1>1, <1>2, <1>3, <1>4, <1>5 DEF SessionNext

\* Every new access or export line of a step carries the right case.
LEMMA CaseStep ==
    ASSUME IInv, IInv', NEW s \in Sessions, SessionNext(s),
           NEW i \in (Len(log) + 1)..Len(log'),
           log'[i].action \in {"accessed_module", "exported"}
    PROVE  LET e == log'[i]
               grants == {j \in (born'[e.sid] + 1)..(i - 1) : LastGrant(log', e.sid, j, i)}
           IN IF grants = {} THEN e.case_id = NO_CASE
              ELSE \A j \in grants : e.case_id = log'[j].case_id
<1>1. TypeOK /\ TypeOK' /\ CaseKept(s) /\ CaseKept(s)'
      /\ sess[s] \in SessionState /\ sess'[s] \in SessionState
  BY DEF IInv, TypeOK
<1>2. Len(log) \in Nat /\ Len(log') \in Nat /\ born[s] \in Nat /\ born'[s] \in Nat /\ i \in Nat
  BY <1>1 DEF TypeOK
<1>3. log' # log
  BY <1>2
<1>4. PICK entries \in Seq(LogEntry) :
         /\ Step(s, sess'[s], entries)
         /\ \A k \in 1..Len(entries) :
               entries[k].action \in {"accessed_module", "exported"} =>
                   /\ Len(entries) = 1
                   /\ entries[k].sid = s
                   /\ entries[k].case_id = clean_event_value(sess[s].auth_case)
                   /\ born' = born
  BY <1>1, <1>3, EventCases
<1>5. Len(entries) \in Nat
  OBVIOUS
<1> SUFFICES /\ log'[i].sid = s
             /\ \/ /\ log'[i].case_id = NO_CASE
                   /\ \A j \in (born'[s] + 1)..(i - 1) : ~IsGrant(log'[j], s)
                \/ \E j \in (born'[s] + 1)..(i - 1) :
                      LastGrant(log', s, j, i) /\ log'[j].case_id = log'[i].case_id
  BY <1>2, Attributed
<1>6. CASE i > Len(log) + Len(entries)
  <2> DEFINE x == sess'[s]
  <2>1. i \in (Len(log) + Len(entries) + 1)..Len(log')
    BY <1>2, <1>5, <1>6
  <2>2. i = Len(log') /\ log'[i] = log_event(s, x.auth_case, x.page, "accessed_module",
                                             x.role, x.mode)
    BY <1>1, <1>4, <2>1, StepLines
  <2>3. log'[i].sid = s /\ log'[i].action = "accessed_module"
        /\ log'[i].case_id = clean_event_value(x.auth_case)
    BY <2>2 DEF log_event
  <2>4. CASE x.auth_case = NO_CASE
    <3>1. \A j \in (born'[s] + 1)..Len(log') : ~IsGrant(log'[j], s)
      BY <1>1, <2>4 DEF CaseKept
    <3>2. QED BY <1>2, <2>2, <2>3, <2>4, <3>1, NoCaseClear
  <2>5. CASE x.auth_case # NO_CASE
    <3>1. PICK j \in (born'[s] + 1)..Len(log') :
            /\ LastGrant(log', s, j, Len(log') + 1)
            /\ log'[j].case_id = clean_event_value(x.auth_case)
      BY <1>1, <2>5 DEF CaseKept
    <3>2. j # i
      BY <2>3, <3>1 DEF LastGrant, IsGrant
    <3>3. j \in (born'[s] + 1)..(i - 1)
      BY <1>2, <2>2, <3>1, <3>2
    <3>4. LastGrant(log', s, j, i)
      BY <1>2, <2>2, <3>1, <3>3 DEF LastGrant
    <3>5. QED BY <2>3, <3>1, <3>3, <3>4
  <2>6. QED BY <2>4, <2>5
<1>7. CASE i <= Len(log) + Len(entries)
  <2>1. i - Len(log) \in 1..Len(entries)
        /\ i \in (Len(log) + 1)..(Len(log) + Len(entries))
    BY <1>2, <1>5, <1>7
  <2>2. log'[i] = entries[i - Len(log)]
    BY <1>1, <1>4, <2>1, StepLines
  <2>3. /\ Len(entries) = 1 /\ log'[i].sid = s /\ born' = born
        /\ log'[i].case_id = clean_event_value(sess[s].auth_case)
    BY <1>4, <2>1, <2>2
  <2>4. i = Len(log) + 1
    BY <1>2, <2>1, <2>3
  <2>5. \A k \in 1..Len(log) : log'[k] = log[k]
    BY <1>1, <1>4, StepLines
  <2>6. CASE sess[s].auth_case = NO_CASE
    <3>1. \A j \in (born[s] + 1)..Len(log) : ~IsGrant(log[j], s)
      BY <1>1, <2>6 DEF CaseKept
    <3>2. \A j \in (born'[s] + 1)..(i - 1) : ~IsGrant(log'[j], s)
      BY <1>2, <2>3, <2>4, <2>5, <3>1
    <3>3. QED BY <2>3, <2>6, <3>2, NoCaseClear
  <2>7. CASE sess[s].auth_case # NO_CASE
    <3>1. PICK j \in (born[s] + 1)..Len(log) :
            /\ LastGrant(log, s, j, Len(log) + 1)
            /\ log[j].case_id = clean_event_value(sess[s].auth_case)
      BY <1>1, <2>7 DEF CaseKept
    <3>2. j \in (born'[s] + 1)..(i - 1) /\ log'[j] = log[j]
      BY <1>2, <2>3, <2>4, <2>5, <3>1
    <3>3. LastGrant(log', s, j, i)
      BY <1>2, <2>4, <2>5, <3>1, <3>2 DEF LastGrant
    <3>4. QED BY <2>3, <3>1, <3>2, <3>3
  <2>8. QED BY <2>6, <2>7
<1>8. QED BY <1>2, <1>5, <1>6, <1>7

\* Every access and export line carries the case of the last authorization
\* of its own session since that session was opened or wiped, however the
\* lines of other sessions fall between.
THEOREM CasesAttributed == Spec => CaseAttribution
<1> DEFINE A == \A i \in (Len(log) + 1)..Len(log') :
          LET e == log'[i]
              grants == {j \in (born'[e.sid] + 1)..(i - 1) :
                            LastGrant(log', e.sid, j, i)}
          IN e.action \in {"accessed_module", "exported"} =>
                IF grants = {} THEN e.case_id = NO_CASE
                ELSE \A j \in grants : e.case_id = log'[j].case_id
<1>1. IInv /\ IInv' /\ [Next]_vars => [A]_vars
  BY CaseStep DEF Next
<1>2. QED BY <1>1, AuthorizationsBacked, PTL DEF Spec, CaseAttribution

-----------------------------------------------------------------------------
(* Elevated roles. *)

\* Line n of log l is the elevation of session t to role r.
Elevates(l, n, t, r) == l[n].sid = t /\ l[n].action = "elevated" /\ l[n].role = r

\* A step keeps the trail if it leaves the role and the time it was set, sets
\* an unprotected role, or writes the elevation line first.
LEMMA TrailKept ==
    ASSUME TypeOK, ElevationTrail, NEW s \in Sessions, NEW x \in SessionState,
           NEW entries \in Seq(LogEntry), Step(s, x, entries),
           \/ since' = since /\ x.role = sess[s].role
           \/ /\ since' = [since EXCEPT ![s] = Len(log)]
              /\ x.role \notin TOTP_PROTECTED_ROLES
           \/ /\ since' = [since EXCEPT ![s] = Len(log)]
              /\ Len(entries) = 1 /\ Elevates(entries, 1, s, x.role)
    PROVE  ElevationTrail'
<1>1. /\ Len(log) \in Nat /\ Len(log') \in Nat /\ Len(entries) \in Nat
      /\ Len(log) + Len(entries) <= Len(log')
      /\ \A k \in 1..Len(log) : log'[k] = log[k]
      /\ \A k \in (Len(log) + 1)..(Len(log) + Len(entries)) :
            log'[k] = entries[k - Len(log)]
  BY StepType, StepLines DEF TypeOK
<1>2. sess' = [sess EXCEPT ![s] = x] /\ sess \in [Sessions -> SessionState]
      /\ since \in [Sessions -> Nat]
  BY DEF Step, TypeOK
<1>3. ASSUME NEW t \in Sessions, sess'[t].role \in TOTP_PROTECTED_ROLES
      PROVE  since'[t] < Len(log') /\ Elevates(log', since'[t] + 1, t, sess'[t].role)
  <2>1. CASE since'[t] = since[t] /\ sess'[t].role = sess[t].role
    <3>1. since[t] < Len(log) /\ Elevates(log, since[t] + 1, t, sess[t].role)
      BY <1>3, <2>1 DEF ElevationTrail, Elevates
    <3>2. since[t] + 1 \in 1..Len(log)
      BY <1>1, <1>2, <3>1
    <3>3. QED BY <1>1, <1>2, <2>1, <3>1, <3>2 DEF Elevates
  <2>2. CASE t # s
    <3>1. since'[t] = since[t] /\ sess'[t] = sess[t]
      BY <1>2, <2>2
    <3>2. QED BY <2>1, <3>1
  <2>3. CASE t = s /\ ~(since' = since /\ x.role = sess[s].role)
    <3>1. since'[t] = Len(log) /\ Len(entries) = 1 /\ Elevates(entries, 1, s, x.role)
          /\ sess'[t] = x
      BY <1>2, <1>3, <2>3
    <3>2. log'[Len(log) + 1] = entries[1] /\ Len(log) < Len(log')
      <4>1. Len(log) + 1 \in (Len(log) + 1)..(Len(log) + Len(entries))
            /\ (Len(log) + 1) - Len(log) = 1
        BY <1>1, <3>1
      <4>2. log'[Len(log) + 1] = entries[(Len(log) + 1) - Len(log)]
        BY <1>1, <4>1
      <4>3. Len(log) < Len(log')
        BY <1>1, <3>1
      <4>4. QED BY <4>1, <4>2, <4>3
    <3>3. QED BY <2>3, <3>1, <3>2 DEF Elevates
  <2>4. CASE t = s /\ since' = since /\ x.role = sess[s].role
    BY <1>2, <2>1, <2>4
  <2>5. QED BY <2>2, <2>3, <2>4
<1>4. QED BY <1>3 DEF ElevationTrail, Elevates

\* Every event keeps the trail.
LEMMA TrailStep ==
    ASSUME TypeOK, ElevationTrail, NEW s \in Sessions, SessionNext(s)
    PROVE  ElevationTrail'
<1> DEFINE x0 == sess[s]
<1>0. x0 \in SessionState /\ <<>> \in Seq(LogEntry)
  BY DEF TypeOK
<1>t. x0.role \in RoleNames /\ x0.mode \in {OFFLINE_SAFE, LIVE_ANALYSIS}
      /\ x0.page \in Pages /\ x0.auth_case \in CaseIds \cup {NO_CASE, "system"}
      /\ x0.pending \in TOTP_PROTECTED_ROLES \cup {NoRole} /\ x0.fails \in Nat
  BY <1>0 DEF SessionState
<1>e. \A e \in LogEntry : <<e>> \in Seq(LogEntry) /\ Len(<<e>>) = 1 /\ <<e>>[1] = e
  OBVIOUS
<1>k. ASSUME NEW x \in SessionState, NEW entries \in Seq(LogEntry), Step(s, x, entries),
             since' = since, x.role = x0.role
      PROVE  ElevationTrail'
  BY <1>k, TrailKept
<1>1. CASE SwitchMode(s)
  <2> DEFINE m == IF x0.mode = OFFLINE_SAFE THEN LIVE_ANALYSIS ELSE OFFLINE_SAFE
             x == [x0 EXCEPT !.mode = m]
  <2>1. x \in SessionState /\ x.role = x0.role
    BY <1>0 DEF SessionState
  <2>2. Step(s, x, <<>>) /\ since' = since
    BY <1>1 DEF SwitchMode
  <2> HIDE DEF x
  <2>3. QED BY <1>0, <1>k, <2>1, <2>2
<1>2. ASSUME NEW r \in UserRoles \ TOTP_PROTECTED_ROLES, SelectUnprotectedRole(s, r)
      PROVE  ElevationTrail'
  <2> DEFINE x == [x0 EXCEPT !.role = r, !.pending = NoRole, !.authorized = FALSE]
  <2>1. x \in SessionState /\ x.role = r
    BY <1>0, SessionAssumption DEF SessionState
  <2>2. Step(s, x, <<>>) /\ since' = [since EXCEPT ![s] = Len(log)]
    BY <1>2 DEF SelectUnprotectedRole
  <2> HIDE DEF x
  <2>3. QED BY <1>0, <2>1, <2>2, TrailKept
<1>3. ASSUME NEW r \in TOTP_PROTECTED_ROLES \cup {NoRole},
             RequestProtectedRole(s, r) \/ (r = NoRole /\ ReselectCurrentRole(s))
      PROVE  ElevationTrail'
  <2> DEFINE x == [x0 EXCEPT !.pending = r]
  <2>1. x \in SessionState /\ x.role = x0.role
    BY <1>0 DEF SessionState
  <2>2. Step(s, x, <<>>) /\ since' = since
    BY <1>3 DEF RequestProtectedRole, ReselectCurrentRole
  <2> HIDE DEF x
  <2>3. QED BY <1>0, <1>k, <2>1, <2>2
<1>4. ASSUME NEW p \in Pages, NEW entries \in Seq(LogEntry), since' = since,
             Step(s, [x0 EXCEPT !.page = p], entries)
      PROVE  ElevationTrail'
  <2> DEFINE x == [x0 EXCEPT !.page = p]
  <2>1. x \in SessionState /\ x.role = x0.role
    BY <1>0 DEF SessionState
  <2>2. Step(s, x, entries)
    BY <1>4
  <2> HIDE DEF x
  <2>3. QED BY <1>4, <1>k, <2>1, <2>2
<1>5. ASSUME NEW p \in Pages, Navigate(s, p) PROVE ElevationTrail'
  BY <1>0, <1>4, <1>5 DEF Navigate
<1>6. ASSUME NEW p \in Pages, LaunchTool(s, p) PROVE ElevationTrail'
  <2>1. RunEntries(s, x0) \in Seq(LogEntry)
    BY <1>0, RunEntriesType
  <2>2. QED BY <1>4, <1>6, <2>1 DEF LaunchTool
<1>7. CASE VerifyCode(s)
  <2> DEFINE x == [x0 EXCEPT !.role = x0.pending, !.pending = NoRole,
                             !.fails = 0, !.authorized = FALSE]
             e == log_event(s, "system", "totp", "elevated", x0.pending, x0.mode)
  <2>1. x0.pending \in RoleNames
    BY <1>7, <1>t DEF VerifyCode, RoleNames
  <2>2. x \in SessionState /\ x.role = x0.pending
    BY <1>0, <2>1 DEF SessionState
  <2>3. e \in LogEntry
    BY <1>t, <2>1, LogEventType
  <2>4. e.sid = s /\ e.action = "elevated" /\ e.role = x0.pending
    BY DEF log_event
  <2>5. Step(s, x, <<e>>) /\ since' = [since EXCEPT ![s] = Len(log)]
    BY <1>7 DEF VerifyCode
  <2> HIDE DEF x, e
  <2>6. <<e>> \in Seq(LogEntry) /\ Len(<<e>>) = 1 /\ Elevates(<<e>>, 1, s, x.role)
    BY <1>e, <2>2, <2>3, <2>4 DEF Elevates
  <2>7. QED BY <2>2, <2>5, <2>6, TrailKept
<1>8. CASE RejectCode(s)
  <2> DEFINE f == x0.fails + 1
             b == x0.fails + 1 >= 3
             x == [x0 EXCEPT !.fails = f, !.locked = b]
             e == log_event(s, "system", "totp", "totp_failed", x0.role, x0.mode)
  <2>1. x \in SessionState /\ x.role = x0.role
    <3>1. b \in BOOLEAN /\ f \in Nat
      BY <1>t
    <3> HIDE DEF b, f
    <3>2. QED BY <1>0, <3>1 DEF SessionState
  <2>2. e \in LogEntry
    BY <1>t, LogEventType
  <2>3. Step(s, x, <<e>>) /\ since' = since
    BY <1>8 DEF RejectCode
  <2> HIDE DEF x, e
  <2>4. QED BY <1>e, <1>k, <2>1, <2>2, <2>3
<1>9. CASE CancelDialog(s)
  <2> DEFINE x == [x0 EXCEPT !.pending = NoRole, !.fails = 0]
  <2>1. x \in SessionState /\ x.role = x0.role
    BY <1>0 DEF SessionState
  <2>2. Step(s, x, <<>>) /\ since' = since
    BY <1>9 DEF CancelDialog
  <2> HIDE DEF x
  <2>3. QED BY <1>0, <1>k, <2>1, <2>2
<1>10. CASE LockExpires(s)
  <2>1. log' = log /\ since' = since /\ sess' = [sess EXCEPT ![s].locked = FALSE]
    BY <1>10 DEF LockExpires
  <2>2. \A t \in Sessions : sess'[t].role = sess[t].role
    BY <2>1 DEF TypeOK, SessionState
  <2>3. QED BY <2>1, <2>2 DEF ElevationTrail
<1>11. CASE Interact(s)
  BY <1>0, <1>k, <1>11 DEF Interact
<1>12. ASSUME NEW case \in CaseIds, SubmitAuthorization(s, case) PROVE ElevationTrail'
  <2> DEFINE x == [x0 EXCEPT !.authorized = TRUE, !.auth_case = case]
             e == log_event(s, case, x0.page, "authorization_granted", x0.role, x0.mode)
  <2>1. x \in SessionState /\ x.role = x0.role
    BY <1>0 DEF SessionState
  <2>2. e \in LogEntry
    BY <1>t, LogEventType
  <2>3. Step(s, x, <<e>>) /\ since' = since
    BY <1>12 DEF SubmitAuthorization
  <2> HIDE DEF x, e
  <2>4. QED BY <1>e, <1>k, <2>1, <2>2, <2>3
<1>13. CASE ExportReport(s)
  <2> DEFINE e == log_event(s, x0.auth_case, "exporter", "exported", x0.role, x0.mode)
  <2>1. e \in LogEntry
    BY <1>t, LogEventType
  <2>2. Step(s, x0, <<e>>) /\ since' = since
    BY <1>13 DEF ExportReport
  <2> HIDE DEF e
  <2>3. QED BY <1>0, <1>e, <1>k, <2>1, <2>2
<1>14. CASE WipeSession(s) \/ ReopenTab(s)
  <2>1. Step(s, FreshSession, <<>>) /\ since' = [since EXCEPT ![s] = Len(log)]
    BY <1>14 DEF WipeSession, ReopenTab, Restart
  <2>2. FreshSession.role \notin TOTP_PROTECTED_ROLES
    BY DEF FreshSession, TOTP_PROTECTED_ROLES
  <2>3. QED BY <1>0, <2>1, <2>2, FreshType, TrailKept
<1>15. QED
  BY <1>1, <1>2, <1>3, <1>5, <1>6, <1>7, <1>8, <1>9, <1>10, <1>11, <1>12, <1>13, <1>14,
     SessionAssumption DEF SessionNext

\* A session holds a protected role only by the code it gave: the audit line
\* at the moment its role was set is its own elevation to that role.
THEOREM ElevationsTraced == Spec => []ElevationTrail
<1>1. Init => ElevationTrail
  <2>1. FreshSession.role \notin TOTP_PROTECTED_ROLES
    BY DEF FreshSession, TOTP_PROTECTED_ROLES
  <2>2. QED BY <2>1 DEF Init, ElevationTrail
<1>2. IInv /\ ElevationTrail /\ [Next]_vars => ElevationTrail'
  <2> SUFFICES ASSUME IInv, ElevationTrail, [Next]_vars PROVE ElevationTrail'
    OBVIOUS
  <2>1. CASE UNCHANGED vars
    BY <2>1 DEF vars, ElevationTrail
  <2>2. ASSUME NEW s \in Sessions, SessionNext(s) PROVE ElevationTrail'
    BY <2>2, TrailStep DEF IInv
  <2>3. QED BY <2>1, <2>2 DEF Next
<1>3. QED BY <1>1, <1>2, AuthorizationsBacked, PTL DEF Spec

-----------------------------------------------------------------------------
(* CaseFile: the evidence of a case is what was attached to it, every table *)
(* kept can be exported, a wipe forgets the cases before it, and cases are  *)
(* lost only with their session or to a case of the same second.  First the *)
(* inductive invariant.                                                     *)

Cases == [case_ : Numbers, evidence : Seq(Files)]

\* The types, with registry as a function to cases.
CaseTyped ==
    /\ now \in 0..MaxSecond
    /\ registry \in [DOMAIN registry -> Cases]
    /\ DOMAIN registry \subseteq 0..now
    /\ active \in {None} \cup DOMAIN registry
    /\ last_derivations.rows \in 0..MaxRows
    /\ last_derivations.case_ \in {None} \cup Numbers
    /\ created \in 0..MaxCases
    /\ wiped \in 0..created
    /\ custody \in Seq(Seq(Files))
    /\ Len(custody) = created

\* No two entries of the registry are one case: what is attached to a case is
\* attached to no other.
OneEntryEach ==
    \A c, d \in DOMAIN registry : registry[c].case_ = registry[d].case_ => c = d

CaseIInv == CaseTyped /\ OneEntryEach /\ CustodyExact /\ Exportable /\ WipeForgets

-----------------------------------------------------------------------------

\* The bounds are numbers, and None is none.
LEMMA Bounds ==
    MaxSecond \in Nat /\ MaxCases \in Nat /\ MaxRows \in Nat /\ MaxRows >= 1 /\ None \notin Nat
  BY BoundsAssumption

\* A sequence is a prefix of itself and of what it becomes by an entry more.
LEMMA PrefixKept ==
    ASSUME NEW S, NEW s \in Seq(S), NEW e \in S
    PROVE  IsPrefix(s, s) /\ IsPrefix(s, Append(s, e))
<1>1. Len(s) \in Nat /\ Len(Append(s, e)) = Len(s) + 1
  OBVIOUS
<1>2. SubSeq(s, 1, Len(s)) = SubSeq(Append(s, e), 1, Len(s))
  <2> DEFINE t == SubSeq(s, 1, Len(s))
             u == SubSeq(Append(s, e), 1, Len(s))
  <2>1. \A i \in 1..Len(s) : s[i] \in S /\ Append(s, e)[i] = s[i]
    OBVIOUS
  <2>2. t \in Seq(S) /\ Len(t) = Len(s) /\ \A i \in 1..Len(s) : t[i] = s[i]
    BY <1>1, <2>1
  <2>3. u \in Seq(S) /\ Len(u) = Len(s) /\ \A i \in 1..Len(s) : u[i] = s[i]
    BY <1>1, <2>1
  <2> HIDE DEF t, u
  <2> QED
    BY <2>2, <2>3, SeqEqual DEF t, u
<1> QED
  BY <1>1, <1>2 DEF IsPrefix

\* The case that a page finds active, if there is one, is of this session.
LEMMA ActiveCase ==
    ASSUME CaseIInv
    PROVE  /\ get_active_case \in {None} \cup Numbers
           /\ get_active_case # None =>
                 /\ active \in DOMAIN registry
                 /\ get_active_case = registry[active].case_
                 /\ get_active_case > wiped
<1>1. CASE active \in DOMAIN registry
  BY <1>1 DEF CaseIInv, CaseTyped, Cases, WipeForgets, get_active_case
<1>2. CASE active \notin DOMAIN registry
  BY <1>2 DEF get_active_case
<1> QED
  BY <1>1, <1>2

-----------------------------------------------------------------------------
(* The steps. *)

\* An empty session, as a new tab and a wiped one are.
LEMMA SessionEmptied ==
    ASSUME CaseIInv, EmptySession, wiped' = created, UNCHANGED <<now, created, custody>>
    PROVE  CaseIInv'
<1> USE DEF CaseIInv, EmptySession
<1>1. registry' \in [{} -> Cases'] /\ DOMAIN registry' = {}
  OBVIOUS
<1>2. CaseTyped'
  BY <1>1, Bounds DEF CaseTyped, NoTable
<1>3. OneEntryEach' /\ CustodyExact'
  BY <1>1 DEF OneEntryEach, CustodyExact
<1>4. Exportable'
  BY DEF Exportable, NoTable
<1>5. WipeForgets'
  BY <1>1 DEF WipeForgets, NoTable
<1> QED
  BY <1>2, <1>3, <1>4, <1>5

\* A page that derives keeps a table of rows that have an address and none of
\* the forbidden names, for the case that is active.
LEMMA TableKept ==
    ASSUME CaseIInv, NEW keys, NEW n \in 0..MaxRows, Keep(keys, n),
           "address" \in keys, keys \cap _FORBIDDEN_KEYS = {}
    PROVE  CaseIInv'
<1> USE DEF CaseIInv, Keep, history
<1>1. last_derivations' = [keys |-> keys, rows |-> n, case_ |-> get_active_case]
  OBVIOUS
<1>2. Cases' = Cases /\ Numbers' = Numbers
  BY DEF Cases, Numbers
<1>3. CaseTyped'
  BY <1>1, <1>2, ActiveCase DEF CaseTyped
<1>4. OneEntryEach' /\ CustodyExact'
  BY DEF OneEntryEach, CustodyExact
<1>5. Exportable'
  BY <1>1 DEF Exportable, safe_record
<1>6. WipeForgets'
  BY <1>1, ActiveCase DEF WipeForgets
<1> QED
  BY <1>3, <1>4, <1>5, <1>6

\* The rows of every page, by the function that builds them.
LEMMA RowsOfPages ==
    \A keys \in {_REPORT_FIELDS, derive_electrum_v1_addresses,
                 derive_electrum_v2_addresses, derive_coin_addresses} :
        "address" \in keys /\ keys \cap _FORBIDDEN_KEYS = {}
<1> DEFINE Fine(keys) == "address" \in keys /\ keys \cap _FORBIDDEN_KEYS = {}
<1>1. Fine(_REPORT_FIELDS)
  BY DEF _REPORT_FIELDS, _FORBIDDEN_KEYS
<1>2. Fine(derive_electrum_v1_addresses)
  BY DEF derive_electrum_v1_addresses, _FORBIDDEN_KEYS
<1>3. Fine(derive_electrum_v2_addresses)
  BY DEF derive_electrum_v1_addresses, derive_electrum_v2_addresses, _FORBIDDEN_KEYS
<1>4. Fine(derive_coin_addresses)
  BY DEF derive_coin_addresses, _FORBIDDEN_KEYS
<1> QED
  BY <1>1, <1>2, <1>3, <1>4

\* A case created in a second that has one takes its place; either way the
\* new case is the only entry with its number.
LEMMA CaseCreated == CaseIInv /\ CreateCase => CaseIInv'
<1> SUFFICES ASSUME CaseIInv, CreateCase PROVE CaseIInv'
  OBVIOUS
<1> USE DEF CaseIInv, CreateCase, create_case
<1> DEFINE new == [case_ |-> created + 1, evidence |-> <<>>]
<1>1. /\ DOMAIN registry' = DOMAIN registry \cup {now}
      /\ registry'[now] = new
      /\ \A c \in DOMAIN registry : c # now => registry'[c] = registry[c]
  OBVIOUS
<1>2. created \in Nat /\ created' = created + 1 /\ Numbers \subseteq Numbers' /\ created + 1 \in Numbers'
  BY Bounds DEF CaseTyped, Numbers
<1>3. new \in Cases' /\ Cases \subseteq Cases'
  <2>1. <<>> \in Seq(Files)
    OBVIOUS
  <2> QED
    BY <1>2, <2>1 DEF Cases
<1>4. \A c \in DOMAIN registry : registry[c] \in Cases /\ registry[c].case_ \in 1..created
  BY DEF CaseTyped, Cases, Numbers
<1>5. registry' \in [DOMAIN registry' -> Cases']
  <2>1. registry' = [c \in DOMAIN registry' |-> registry'[c]]
    BY <1>1
  <2>2. \A c \in DOMAIN registry' : registry'[c] \in Cases'
    BY <1>1, <1>3, <1>4
  <2> QED
    BY <2>1, <2>2
<1>6. custody' \in Seq(Seq(Files)) /\ Len(custody') = created + 1
      /\ custody'[created + 1] = <<>> /\ \A i \in 1..created : custody'[i] = custody[i]
  <2>1. <<>> \in Seq(Files) /\ custody \in Seq(Seq(Files)) /\ Len(custody) = created
    BY DEF CaseTyped
  <2> QED
    BY <1>2, <2>1
<1>7. CaseTyped'
  BY <1>1, <1>2, <1>5, <1>6, Bounds DEF CaseTyped
<1> HIDE DEF new
<1>8. new.case_ = created + 1 /\ new.evidence = <<>>
  BY DEF new
<1>9. OneEntryEach'
  BY <1>1, <1>2, <1>4, <1>8 DEF OneEntryEach
<1>10. CustodyExact'
  <2> SUFFICES ASSUME NEW c \in DOMAIN registry'
               PROVE  registry'[c].evidence = custody'[registry'[c].case_]
    BY DEF CustodyExact
  <2>1. CASE c = now
    BY <1>1, <1>6, <1>8, <2>1
  <2>2. CASE c # now
    BY <1>1, <1>4, <1>6, <2>2 DEF CustodyExact
  <2> QED
    BY <2>1, <2>2
<1>11. Exportable'
  BY DEF Exportable
<1>12. WipeForgets'
  <2>1. created + 1 > wiped
    BY <1>2 DEF CaseTyped
  <2> QED
    BY <1>1, <1>8, <2>1 DEF WipeForgets
<1> QED
  BY <1>7, <1>9, <1>10, <1>11, <1>12

\* A file goes to the list of the active case and to no other.
LEMMA EvidenceAttached ==
    ASSUME CaseIInv, NEW f \in Files, AttachEvidence(f)
    PROVE  /\ CaseIInv'
           /\ active \in DOMAIN registry /\ DOMAIN registry' = DOMAIN registry
           /\ registry'[active].case_ = registry[active].case_
           /\ registry'[active].evidence = Append(registry[active].evidence, f)
           /\ \A c \in DOMAIN registry : c # active => registry'[c] = registry[c]
<1> USE DEF CaseIInv, AttachEvidence, add_evidence_to_active_case
<1> DEFINE k == registry[active].case_
           more == [registry[active] EXCEPT !.evidence = Append(registry[active].evidence, f)]
<1>1. active \in DOMAIN registry /\ get_active_case = k
  BY ActiveCase
<1>2. k \in 1..created /\ registry[active] \in Cases /\ registry[active].evidence \in Seq(Files)
  BY <1>1 DEF CaseTyped, Cases, Numbers
<1>3. /\ more \in Cases
      /\ more.case_ = k /\ more.evidence = Append(registry[active].evidence, f)
  <2>1. Append(registry[active].evidence, f) \in Seq(Files)
    BY <1>2
  <2> QED
    BY <1>2, <2>1 DEF Cases
<1>4. registry' = [registry EXCEPT ![active] = more]
  OBVIOUS
<1> HIDE DEF more
<1>5. /\ DOMAIN registry' = DOMAIN registry
      /\ registry'[active] = more
      /\ \A c \in DOMAIN registry : c # active => registry'[c] = registry[c]
  BY <1>1, <1>4
<1>6. Cases' = Cases /\ Numbers' = Numbers
  BY DEF Cases, Numbers
<1>7. registry' \in [DOMAIN registry' -> Cases]
  BY <1>1, <1>3, <1>4, <1>5 DEF CaseTyped
<1>8. custody \in Seq(Seq(Files)) /\ Len(custody) = created /\ custody[k] \in Seq(Files)
  BY <1>2 DEF CaseTyped
<1>9. /\ custody' \in Seq(Seq(Files)) /\ Len(custody') = created
      /\ custody'[k] = Append(custody[k], f)
      /\ \A i \in 1..created : i # k => custody'[i] = custody[i]
  <2>1. custody' = [custody EXCEPT ![k] = Append(custody[k], f)]
    BY <1>1
  <2>2. Append(custody[k], f) \in Seq(Files) /\ k \in 1..Len(custody)
    BY <1>2, <1>8
  <2> HIDE DEF k
  <2> QED
    BY <1>8, <2>1, <2>2, ExceptSeq
<1>10. CaseTyped'
  BY <1>5, <1>6, <1>7, <1>9 DEF CaseTyped
<1>11. OneEntryEach'
  BY <1>1, <1>3, <1>5 DEF OneEntryEach
<1>12. CustodyExact'
  <2> SUFFICES ASSUME NEW c \in DOMAIN registry
               PROVE  registry'[c].evidence = custody'[registry'[c].case_]
    BY <1>5 DEF CustodyExact
  <2>1. CASE c = active
    BY <1>1, <1>3, <1>5, <1>9, <2>1 DEF CustodyExact
  <2>2. CASE c # active
    <3>1. registry[c].case_ # k /\ registry[c].case_ \in 1..created
      BY <1>1, <2>2 DEF OneEntryEach, CaseTyped, Cases, Numbers
    <3> QED
      BY <1>5, <1>9, <2>2, <3>1 DEF CustodyExact
  <2> QED
    BY <2>1, <2>2
<1>13. Exportable'
  BY DEF Exportable
<1>14. WipeForgets'
  BY <1>1, <1>3, <1>5 DEF WipeForgets
<1> QED
  BY <1>1, <1>3, <1>5, <1>10, <1>11, <1>12, <1>13, <1>14

\* The pages that derive addresses.
DerivesRows ==
    \/ page_xpub_tool \/ page_slip39 \/ page_electrum \/ page_passphrase
    \/ page_address_gen \/ page_derivation \/ page_address_matcher

\* The pages that only derive rows leave the registry as it is and keep the
\* invariant.
LEMMA RowsDerived == CaseIInv /\ DerivesRows => CaseIInv' /\ UNCHANGED <<registry, now>>
<1> SUFFICES ASSUME CaseIInv, DerivesRows PROVE CaseIInv' /\ UNCHANGED <<registry, now>>
  OBVIOUS
<1>1. PICK keys \in {_REPORT_FIELDS, derive_electrum_v1_addresses,
                     derive_electrum_v2_addresses, derive_coin_addresses},
           n \in 0..MaxRows : Keep(keys, n)
  <2>1. 1..MaxRows \subseteq 0..MaxRows
    BY Bounds
  <2>2. \A wif \in BOOLEAN : safe_results(wif) = _REPORT_FIELDS
    BY DEF safe_results, _REPORT_FIELDS
  <2>3. CASE page_xpub_tool
    BY <2>1, <2>2, <2>3 DEF page_xpub_tool
  <2>4. CASE page_slip39 \/ page_passphrase \/ page_address_gen
    BY <2>1, <2>4 DEF page_slip39, page_passphrase, page_address_gen, StandardRows
  <2>5. CASE page_electrum
    BY <2>1, <2>5 DEF page_electrum
  <2>6. CASE page_derivation \/ page_address_matcher
    BY <2>1, <2>6 DEF page_derivation, page_address_matcher, StandardRows
  <2> QED
    BY <2>3, <2>4, <2>5, <2>6 DEF DerivesRows
<1>2. "address" \in keys /\ keys \cap _FORBIDDEN_KEYS = {}
  BY RowsOfPages
<1>3. CaseIInv'
  BY <1>1, <1>2, TableKept
<1> QED
  BY <1>1, <1>3 DEF Keep

\* Steps that leave registry, table and history alone.
LEMMA NothingMoved ==
    ASSUME CaseIInv, UNCHANGED <<registry, last_derivations, history>>,
           active' \in {None} \cup DOMAIN registry,
           now' \in 0..MaxSecond, now' >= now
    PROVE  CaseIInv'
<1> USE DEF CaseIInv, history
<1>1. Cases' = Cases /\ Numbers' = Numbers
  BY DEF Cases, Numbers
<1>2. DOMAIN registry' \subseteq 0..now'
  BY Bounds DEF CaseTyped
<1>3. CaseTyped'
  BY <1>1, <1>2 DEF CaseTyped
<1> QED
  BY <1>3 DEF OneEntryEach, CustodyExact, Exportable, WipeForgets

\* Every step of a session with its cases keeps the invariant.
LEMMA CaseNextInv == CaseIInv /\ [CaseNext]_cvars => CaseIInv'
<1> SUFFICES ASSUME CaseIInv, [CaseNext]_cvars PROVE CaseIInv'
  OBVIOUS
<1>0. now \in 0..MaxSecond /\ active \in {None} \cup DOMAIN registry
  BY DEF CaseIInv, CaseTyped
<1>1. CASE Tick
  BY <1>0, <1>1, Bounds, NothingMoved DEF Tick
<1>2. CASE CreateCase
  BY <1>2, CaseCreated
<1>3. ASSUME NEW c \in DOMAIN registry, ActivateCase(c) PROVE CaseIInv'
  BY <1>0, <1>3, NothingMoved DEF ActivateCase, set_active_case
<1>4. ASSUME NEW f \in Files, AttachEvidence(f) PROVE CaseIInv'
  BY <1>4, EvidenceAttached
<1>5. CASE DerivesRows
  BY <1>5, RowsDerived
<1>6. CASE page_exporter
  BY <1>0, <1>6, NothingMoved DEF page_exporter
<1>7. CASE page_wipe
  BY <1>7, SessionEmptied DEF page_wipe
<1>8. CASE ReloadTab
  BY <1>8, SessionEmptied DEF ReloadTab
<1>9. CASE UNCHANGED cvars
  BY <1>0, <1>9, NothingMoved DEF cvars, history
<1> QED
  BY <1>1, <1>2, <1>3, <1>4, <1>5, <1>6, <1>7, <1>8, <1>9 DEF CaseNext, DerivesRows

\* The invariant holds of a new session.
LEMMA CaseInitInv == CaseInit => CaseIInv
<1> SUFFICES ASSUME CaseInit PROVE CaseIInv
  OBVIOUS
<1> USE DEF CaseInit
<1>1. registry \in [{} -> Cases] /\ DOMAIN registry = {}
  OBVIOUS
<1>2. custody \in Seq(Seq(Files)) /\ Len(custody) = 0
  OBVIOUS
<1>3. CaseTyped
  BY <1>1, <1>2, Bounds DEF CaseTyped, NoTable
<1> QED
  BY <1>1, <1>3 DEF CaseIInv, OneEntryEach, CustodyExact, Exportable, WipeForgets, NoTable

\* The inductive invariant holds in every state.
THEOREM CaseInvariant == CaseSpec => []CaseIInv
  BY CaseInitInv, CaseNextInv, PTL DEF CaseSpec

-----------------------------------------------------------------------------
(* The results. *)

\* Every variable keeps its type: the active case is one of the registry, and
\* every case has its history.
THEOREM CaseTypes == CaseSpec => []CaseTypeOK
<1>1. CaseIInv => CaseTypeOK
  <2> SUFFICES ASSUME CaseIInv PROVE CaseTypeOK
    OBVIOUS
  <2>1. \A c \in DOMAIN registry : registry[c] \in Cases
    BY DEF CaseIInv, CaseTyped
  <2> QED
    BY <2>1 DEF CaseIInv, CaseTyped, Cases, CaseTypeOK
<1> QED
  BY <1>1, CaseInvariant, PTL

\* The evidence list of a case is what was attached while it was active, in
\* that order, however cases are created, activated and wiped in between.
THEOREM CustodyKept == CaseSpec => []CustodyExact
<1>1. CaseIInv => CustodyExact
  BY DEF CaseIInv
<1> QED
  BY <1>1, CaseInvariant, PTL

\* Whatever page derived last, the exporter accepts its table.
THEOREM TablesExportable == CaseSpec => []Exportable
<1>1. CaseIInv => Exportable
  BY DEF CaseIInv
<1> QED
  BY <1>1, CaseInvariant, PTL

\* After a wipe or a reload no case, active case or table of before is left.
THEOREM SessionForgotten == CaseSpec => []WipeForgets
<1>1. CaseIInv => WipeForgets
  BY DEF CaseIInv
<1> QED
  BY <1>1, CaseInvariant, PTL

\* What a step may do to the registry.
KeepsCases ==
    \/ registry' = <<>> /\ active' = None
    \/ \A c \in DOMAIN registry :
          /\ c \in DOMAIN registry'
          /\ IF registry'[c].case_ = registry[c].case_
             THEN IsPrefix(registry[c].evidence, registry'[c].evidence)
             ELSE c = now

\* A case leaves the registry only with its session, or for a case created in
\* its own second, and its evidence is only added to.
THEOREM CasesStay == CaseSpec => CasesKept
<1>1. CaseIInv /\ [CaseNext]_cvars => [KeepsCases]_cvars
  <2> SUFFICES ASSUME CaseIInv, CaseNext PROVE KeepsCases
    BY DEF KeepsCases
  <2>0. \A c \in DOMAIN registry :
            registry[c].evidence \in Seq(Files) /\ registry[c].case_ \in 1..created
    <3>1. \A c \in DOMAIN registry : registry[c] \in Cases
      BY DEF CaseIInv, CaseTyped
    <3> QED
      BY <3>1 DEF Cases, Numbers
  <2>1. CASE registry' = registry
    <3> SUFFICES ASSUME NEW c \in DOMAIN registry
                 PROVE  IsPrefix(registry[c].evidence, registry[c].evidence)
      BY <2>1 DEF KeepsCases
    <3> QED
      BY <2>0 DEF IsPrefix
  <2>2. CASE CreateCase
    <3>1. /\ DOMAIN registry' = DOMAIN registry \cup {now}
          /\ registry'[now].case_ = created + 1
          /\ \A c \in DOMAIN registry : c # now => registry'[c] = registry[c]
      BY <2>2 DEF CreateCase, create_case
    <3>2. \A c \in DOMAIN registry : IsPrefix(registry[c].evidence, registry[c].evidence)
      BY <2>0 DEF IsPrefix
    <3>3. created \in Nat /\ \A c \in DOMAIN registry : registry[c].case_ # created + 1
      BY <2>0, Bounds DEF CaseIInv, CaseTyped
    <3> QED
      BY <3>1, <3>2, <3>3 DEF KeepsCases
  <2>3. ASSUME NEW f \in Files, AttachEvidence(f) PROVE KeepsCases
    <3>1. /\ DOMAIN registry' = DOMAIN registry
          /\ registry'[active].case_ = registry[active].case_
          /\ registry'[active].evidence = Append(registry[active].evidence, f)
          /\ \A c \in DOMAIN registry : c # active => registry'[c] = registry[c]
      BY <2>3, EvidenceAttached
    <3>2. \A c \in DOMAIN registry :
              /\ IsPrefix(registry[c].evidence, registry[c].evidence)
              /\ IsPrefix(registry[c].evidence, Append(registry[c].evidence, f))
      BY <2>0, PrefixKept
    <3> QED
      BY <3>1, <3>2 DEF KeepsCases
  <2>4. CASE page_wipe \/ ReloadTab
    BY <2>4 DEF page_wipe, ReloadTab, EmptySession, KeepsCases
  <2>5. CASE DerivesRows
    BY <2>1, <2>5, RowsDerived
  <2>6. CASE Tick \/ (\E c \in DOMAIN registry : ActivateCase(c)) \/ page_exporter
    BY <2>1, <2>6 DEF Tick, ActivateCase, page_exporter
  <2> QED
    BY <2>2, <2>3, <2>4, <2>5, <2>6 DEF CaseNext, DerivesRows
<1> QED
  BY <1>1, CaseInvariant, PTL DEF CaseSpec, CasesKept, KeepsCases
=============================================================================
