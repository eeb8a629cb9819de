------------------------- MODULE CampaignSessionProofs -------------------------
(* Theorems about CampaignSession, for every set of campaigns, leads,       *)
(* workers and tokens, every step list and every bound.                     *)
EXTENDS CampaignSession, TLAPS

-----------------------------------------------------------------------------
(* Typing of the records the actions write.                                 *)

Pc == {"idle", "locked", "opening", "verifying", "leads", "acting",
       "recording", "closing", "releasing"}
Result == {"none", "ok", "fail", "blank", "stale", "error", "invalid"}
SeenRow == [status: LeadStatus, step: 0..NumSteps]
Due == {"none", "later", "now"}

LEMMA IdleTyped == Idle \in WorkerState
BY ConstantsAssumption DEF Idle, WorkerState, Unseen, LeadStatus

LEMMA WorkerFields ==
    ASSUME NEW x \in WorkerState
    PROVE  /\ x.token \in Tokens \cup {NoToken}
           /\ x.todo \subseteq Leads /\ x.cur \subseteq Leads
           /\ x.fresh \in BOOLEAN
           /\ \A l \in Leads : x.seen[l] \in SeenRow
BY DEF WorkerState, SeenRow

LEMMA SetPc ==
    ASSUME NEW x \in WorkerState, NEW c \in Pc
    PROVE  /\ [x EXCEPT !.pc = c] \in WorkerState
           /\ [x EXCEPT !.pc = c].pc = c
           /\ [x EXCEPT !.pc = c].cur = x.cur
BY DEF WorkerState, Pc

LEMMA SetPcAndCur ==
    ASSUME NEW x \in WorkerState, NEW c \in Pc, NEW C \in SUBSET Leads
    PROVE  /\ [x EXCEPT !.pc = c, !.cur = C] \in WorkerState
           /\ [x EXCEPT !.pc = c, !.cur = C].pc = c
           /\ [x EXCEPT !.pc = c, !.cur = C].cur = C
BY DEF WorkerState, Pc

LEMMA SetPcAndResult ==
    ASSUME NEW x \in WorkerState, NEW c \in Pc, NEW r \in Result
    PROVE  /\ [x EXCEPT !.pc = c, !.result = r] \in WorkerState
           /\ [x EXCEPT !.pc = c, !.result = r].pc = c
           /\ [x EXCEPT !.pc = c, !.result = r].cur = x.cur
BY DEF WorkerState, Pc, Result

LEMMA SetLoaded ==
    ASSUME NEW x \in WorkerState, NEW T \in SUBSET Leads,
           NEW s \in [Leads -> SeenRow]
    PROVE  /\ [x EXCEPT !.pc = "opening", !.todo = T, !.seen = s] \in WorkerState
           /\ [x EXCEPT !.pc = "opening", !.todo = T, !.seen = s].pc = "opening"
           /\ [x EXCEPT !.pc = "opening", !.todo = T, !.seen = s].cur = x.cur
BY DEF WorkerState, SeenRow

\* What NextLead writes.
LEMMA SetNext ==
    ASSUME NEW x \in WorkerState, NEW l \in Leads, NEW b \in BOOLEAN
    PROVE  LET y == [x EXCEPT !.pc = "leads", !.todo = x.todo \ {l},
                              !.cur = {}, !.seen[l] = Unseen,
                              !.result = "none", !.fresh = b]
           IN  y \in WorkerState /\ y.pc = "leads" /\ y.cur = {}
<1>1. Unseen \in SeenRow
  BY ConstantsAssumption DEF Unseen, SeenRow, LeadStatus
<1>2. [x.seen EXCEPT ![l] = Unseen] \in [Leads -> SeenRow]
  BY <1>1 DEF WorkerState, SeenRow
<1>3. QED
  BY <1>2 DEF WorkerState, SeenRow

\* What TakeSession and Leave write.
LEMMA SetFromIdle ==
    ASSUME NEW c \in Pc, NEW t \in Tokens \cup {NoToken}, NEW r \in Result
    PROVE  /\ [Idle EXCEPT !.pc = c, !.token = t, !.result = r] \in WorkerState
           /\ [Idle EXCEPT !.pc = c, !.token = t, !.result = r].pc = c
           /\ [Idle EXCEPT !.pc = c, !.token = t, !.result = r].cur = {}
           /\ [Idle EXCEPT !.pc = c, !.token = t] \in WorkerState
           /\ [Idle EXCEPT !.pc = c, !.token = t].pc = c
           /\ [Idle EXCEPT !.pc = c, !.token = t].cur = {}
<1>1. Idle \in WorkerState /\ Idle.cur = {}
  BY IdleTyped DEF Idle
<1>2. [Idle EXCEPT !.pc = c, !.token = t] \in WorkerState
  BY <1>1 DEF WorkerState, Pc
<1>3. [Idle EXCEPT !.pc = c, !.token = t, !.result = r] \in WorkerState
  <2>1. PICK s \in WorkerState : s = [Idle EXCEPT !.pc = c, !.token = t]
    BY <1>2
  <2>2. [s EXCEPT !.result = r] \in WorkerState
    BY DEF WorkerState, Result
  <2>3. [Idle EXCEPT !.pc = c, !.token = t, !.result = r] = [s EXCEPT !.result = r]
    BY <1>1, <2>1 DEF WorkerState
  <2> QED
    BY <2>2, <2>3
<1>4. /\ [Idle EXCEPT !.pc = c, !.token = t, !.result = r].pc = c
      /\ [Idle EXCEPT !.pc = c, !.token = t, !.result = r].cur = {}
      /\ [Idle EXCEPT !.pc = c, !.token = t].pc = c
      /\ [Idle EXCEPT !.pc = c, !.token = t].cur = {}
  BY <1>1 DEF WorkerState
<1> QED
  BY <1>2, <1>3, <1>4

\* Writing the state of one worker.
LEMMA WorkerTable ==
    ASSUME NEW f \in [Workers -> WorkerState], NEW w \in Workers,
           NEW x \in WorkerState
    PROVE  [f EXCEPT ![w] = x] \in [Workers -> WorkerState]
OBVIOUS

-----------------------------------------------------------------------------
(* Typing of the rows of leads.                                             *)

LEMMA LeadFields ==
    ASSUME NEW x \in Lead
    PROVE  /\ x.status \in LeadStatus /\ x.step \in 0..NumSteps
           /\ x.due \in Due /\ x.running \in Int
           /\ x.failed \in [Types -> Nat]
BY DEF Lead, Due

LEMMA NewLeadTyped == NoLead \in Lead /\ NewLead \in Lead
<1>1. NumSteps \in Nat \ {0}
  BY ConstantsAssumption
<1>2. [ty \in Types |-> 0] \in [Types -> Nat]
  OBVIOUS
<1>3. NoLead \in Lead
  BY <1>1, <1>2 DEF NoLead, Lead, LeadStatus
<1>4. "pending" \in LeadStatus /\ 1 \in 0..NumSteps
  BY <1>1 DEF LeadStatus, Workable
<1>5. NewLead \in Lead
  BY <1>3, <1>4 DEF NewLead, Lead
<1> QED
  BY <1>3, <1>5

LEMMA SetStep ==
    ASSUME NEW x \in Lead, NEW n \in 0..NumSteps, NEW d \in Due
    PROVE  /\ [x EXCEPT !.step = n] \in Lead
           /\ [x EXCEPT !.due = d] \in Lead
           /\ [x EXCEPT !.step = n, !.due = d] \in Lead
BY DEF Lead, Due

LEMMA SetStatus ==
    ASSUME NEW x \in Lead, NEW s \in LeadStatus, NEW n \in 0..NumSteps,
           NEW d \in Due
    PROVE  /\ [x EXCEPT !.status = s] \in Lead
           /\ [x EXCEPT !.status = s, !.step = n] \in Lead
           /\ [x EXCEPT !.status = s, !.due = d] \in Lead
           /\ [x EXCEPT !.status = s, !.step = n, !.due = d] \in Lead
BY DEF Lead, Due

LEMMA SetTouched ==
    ASSUME NEW x \in Lead, NEW s \in LeadStatus, NEW d \in Due
    PROVE  /\ [x EXCEPT !.touched = TRUE] \in Lead
           /\ [x EXCEPT !.due = d, !.touched = TRUE] \in Lead
           /\ [x EXCEPT !.status = s, !.due = d, !.touched = TRUE] \in Lead
BY DEF Lead, Due

LEMMA SetRunning ==
    ASSUME NEW x \in Lead, NEW i \in Int
    PROVE  [x EXCEPT !.running = i] \in Lead
BY DEF Lead

LEMMA JobTyped ==
    ASSUME NEW x \in Lead, NEW n \in Steps
    PROVE  JobEnds(x) \in Lead /\ JobFails(x, n) \in Lead
<1>1. x.running \in Int /\ x.failed \in [Types -> Nat] /\ StepType[n] \in Types
  BY LeadFields, ConstantsAssumption
<1>2. JobEnds(x) \in Lead
  BY <1>1, SetRunning DEF JobEnds
<1>3. [x.failed EXCEPT ![StepType[n]] = x.failed[StepType[n]] + 1]
        \in [Types -> Nat]
  BY <1>1
<1>4. JobFails(x, n) \in Lead
  BY <1>3 DEF JobFails, Lead
<1> QED
  BY <1>2, <1>4

LEMMA LeadTable ==
    ASSUME NEW f \in [Leads -> Lead], NEW l \in Leads, NEW x \in Lead
    PROVE  [f EXCEPT ![l] = x] \in [Leads -> Lead]
OBVIOUS

-----------------------------------------------------------------------------
(* Typing of what the session computes.                                     *)

LEMMA SeenTyped ==
    ASSUME TypeOK, NEW w \in Workers, NEW l \in Leads
    PROVE  Seen(w, l) \in SeenRow
<1>1. worker[w] \in WorkerState /\ lead[l] \in Lead
  BY DEF TypeOK
<1>2. worker[w].seen[l] \in SeenRow
  BY <1>1, WorkerFields
<1>3. lead[l].status \in LeadStatus /\ lead[l].step \in 0..NumSteps
  BY <1>1, LeadFields
<1> QED
  BY <1>2, <1>3 DEF Seen, SeenRow

LEMMA StepOfTyped ==
    ASSUME TypeOK, NEW w \in Workers, NEW l \in Leads
    PROVE  StepOf(w, l) \in Steps
<1>1. worker[w].seen[l] \in SeenRow
  BY WorkerFields DEF TypeOK
<1>2. worker[w].seen[l].step \in 0..NumSteps /\ NumSteps \in Nat \ {0}
  BY <1>1, ConstantsAssumption DEF SeenRow
<1> QED
  BY <1>2 DEF StepOf, FromOne, Steps

LEMMA BegunTyped ==
    ASSUME TypeOK, NEW w \in Workers, NEW l \in Leads
    PROVE  Begun(w, l) \in [Leads -> Lead]
<1>1. lead \in [Leads -> Lead] /\ lead[l] \in Lead /\ 1 \in 0..NumSteps
  BY ConstantsAssumption DEF TypeOK
<1>2. [lead[l] EXCEPT !.step = 1] \in Lead
  BY <1>1, SetStep DEF Due
<1> QED
  BY <1>1, <1>2 DEF Begun

LEMMA AdvanceTyped ==
    ASSUME TypeOK, NEW l \in Leads, NEW row \in Lead, NEW n \in Steps,
           NEW s \in LeadStatus
    PROVE  Advance(row, l, n, s) \in Lead
<1>0. 0 \in 0..NumSteps
  BY ConstantsAssumption
<1>1. CampaignOf[l] \in Campaigns
  BY ConstantsAssumption
<1>2. campaign[CampaignOf[l]] \in Campaign
  BY <1>1 DEF TypeOK
<1>3. PlanOf(l) \subseteq Steps
  BY <1>2 DEF PlanOf, Campaign
<1>4. DueAfter(n + 1) \in Due /\ "none" \in Due /\ "complete" \in LeadStatus
  BY DEF DueAfter, Due, LeadStatus
<1>5. n + 1 \in PlanOf(l) => n + 1 \in 0..NumSteps
  BY <1>3 DEF Steps
<1>6. CASE n + 1 \in PlanOf(l)
  <2>1. [row EXCEPT !.status = s, !.step = n + 1, !.due = DueAfter(n + 1)]
          \in Lead
    BY <1>4, <1>5, <1>6, SetStatus
  <2> QED
    BY <1>6, <2>1 DEF Advance
<1>7. CASE n + 1 \notin PlanOf(l)
  <2>1. [row EXCEPT !.status = "complete", !.due = "none"] \in Lead
    BY <1>0, <1>4, SetStatus
  <2> QED
    BY <1>7, <2>1 DEF Advance
<1> QED
  BY <1>6, <1>7

LEMMA MovedTyped ==
    ASSUME TypeOK, NEW w \in Workers, NEW l \in Leads, NEW n \in Steps
    PROVE  Moved(w, l, n) \in Lead
<1> DEFINE st == Seen(w, l).status
           row == Advance(lead[l], l, n, Written(l, st, StatusAfter(n, st)))
<1>1. st \in LeadStatus
  BY SeenTyped DEF SeenRow
<1>2. StepType[n] \in Types /\ lead[l] \in Lead
  BY ConstantsAssumption DEF TypeOK
<1>3. StatusAfter(n, st) \in LeadStatus
  BY <1>1, <1>2 DEF StatusAfter, Types, LeadStatus, Workable
<1>4. Written(l, st, StatusAfter(n, st)) \in LeadStatus
  BY <1>2, <1>3, LeadFields DEF Written
<1>5. row \in Lead
  BY <1>2, <1>4, AdvanceTyped
<1>6. Moved(w, l, n) = [JobEnds(row) EXCEPT !.touched = TRUE]
  BY DEF Moved
<1> HIDE DEF row
<1> QED
  BY <1>5, <1>6, JobTyped, SetTouched DEF Due, LeadStatus

LEMMA StoppedTyped ==
    ASSUME TypeOK, NEW w \in Workers, NEW l \in Leads, NEW n \in Steps
    PROVE  Stopped(w, l, n) \in Lead
<1> DEFINE row == JobFails(JobEnds(lead[l]), n)
<1>1. row \in Lead
  BY JobTyped DEF TypeOK
<1>2. Stopped(w, l, n) = [row EXCEPT !.status = "failed", !.due = "none",
                                     !.touched = TRUE]
  BY DEF Stopped
<1>3. "failed" \in LeadStatus /\ "none" \in Due
  BY DEF Due, LeadStatus
<1> HIDE DEF row
<1>4. [row EXCEPT !.status = "failed", !.due = "none", !.touched = TRUE] \in Lead
  BY <1>1, <1>3, SetTouched
<1> QED
  BY <1>2, <1>4

-----------------------------------------------------------------------------
(* Every step changes one worker at most; what it becomes.                  *)

LEMMA NextLeadTyped ==
    ASSUME TypeOK, NEW w \in Workers, NEW l \in Leads, NEW b \in BOOLEAN,
           NextLead(w, l, b)
    PROVE  \E x \in WorkerState : /\ x.pc = "leads" /\ x.cur = {}
                                 /\ worker' = [worker EXCEPT ![w] = x]
<1> DEFINE y == [worker[w] EXCEPT !.pc = "leads",
                   !.todo = worker[w].todo \ {l}, !.cur = {},
                   !.seen[l] = Unseen, !.result = "none", !.fresh = b]
<1>1. worker[w] \in WorkerState
  BY DEF TypeOK
<1>2. y \in WorkerState /\ y.pc = "leads" /\ y.cur = {}
  BY <1>1, SetNext
<1>3. worker' = [worker EXCEPT ![w] = y]
  BY DEF NextLead
<1> HIDE DEF y
<1> QED
  BY <1>2, <1>3

LEMMA LeaveTyped ==
    ASSUME TypeOK, NEW w \in Workers, NEW r \in Result, Leave(w, r)
    PROVE  \E x \in WorkerState : /\ x.pc = "closing" /\ x.cur = {}
                                 /\ worker' = [worker EXCEPT ![w] = x]
<1> DEFINE t == worker[w].token
           y == [Idle EXCEPT !.pc = "closing", !.token = t, !.result = r]
<1>1. t \in Tokens \cup {NoToken}
  BY WorkerFields DEF TypeOK
<1> HIDE DEF t
<1>2. "closing" \in Pc
  BY DEF Pc
<1>4. y \in WorkerState /\ y.pc = "closing" /\ y.cur = {}
  BY <1>1, <1>2, SetFromIdle
<1>3. worker' = [worker EXCEPT ![w] = y]
  BY DEF Leave, t
<1> HIDE DEF y
<1> QED
  BY <1>3, <1>4

LEMMA GotoTyped ==
    ASSUME TypeOK, NEW w \in Workers, NEW c \in Pc, Goto(w, c)
    PROVE  \E x \in WorkerState : /\ x.pc = c /\ x.cur = worker[w].cur
                                 /\ worker' = [worker EXCEPT ![w] = x]
<1> DEFINE y == [worker[w] EXCEPT !.pc = c]
<1>1. y \in WorkerState /\ y.pc = c /\ y.cur = worker[w].cur
  BY SetPc DEF TypeOK
<1>2. worker' = [worker EXCEPT ![w] = y]
  BY DEF Goto
<1> HIDE DEF y
<1> QED
  BY <1>1, <1>2

-----------------------------------------------------------------------------
(* Types: the steps of users, Beat and time.                                *)

LEMMA InitTypes == Init => TypeOK
<1>1. [status |-> "draft", plan |-> Steps] \in Campaign
  BY DEF Campaign
<1> SUFFICES ASSUME Init PROVE TypeOK
  OBVIOUS
<1>2. campaign \in [Campaigns -> Campaign]
  BY <1>1 DEF Init
<1>3. lead \in [Leads -> Lead]
  BY NewLeadTyped DEF Init
<1>4. worker \in [Workers -> WorkerState]
  BY IdleTyped DEF Init
<1>5. performed \in [Leads -> [Steps -> Nat]] /\ passed \in [Leads -> SUBSET Steps]
  BY DEF Init
<1> QED
  BY <1>2, <1>3, <1>4, <1>5 DEF Init, TypeOK

UserFrame == UNCHANGED <<sessionLock, beat, worker, faults, performed, waited>>

LEMMA ActivateTypes ==
    ASSUME TypeOK, NEW c \in Campaigns, Activate(c)
    PROVE  /\ campaign' \in [Campaigns -> Campaign]
           /\ late' \in [Campaigns -> Nat]
           /\ queue' \subseteq Tokens \cup {NoToken}
<1>1. [campaign[c] EXCEPT !.status = "active"] \in Campaign
  BY DEF TypeOK, Campaign
<1> QED
  BY <1>1 DEF TypeOK, Activate

LEMMA UserTypes == TypeOK /\ UserStep => TypeOK'
<1> SUFFICES ASSUME TypeOK, UserStep PROVE TypeOK'
  OBVIOUS
<1>0. /\ UserFrame /\ lead \in [Leads -> Lead]
      /\ 1 \in 0..NumSteps /\ 0 \in 0..NumSteps
      /\ "pending" \in LeadStatus /\ "now" \in Due
  BY ConstantsAssumption DEF UserStep, UserFrame, TypeOK, LeadStatus, Workable, Due
<1>1. ASSUME NEW c \in Campaigns, StartCampaign(c) PROVE TypeOK'
  <2>1. \A l \in Leads : [lead[l] EXCEPT !.step = 1, !.due = "now"] \in Lead
    BY <1>0, SetStep
  <2>2. lead' \in [Leads -> Lead]
    BY <1>0, <1>1, <2>1 DEF StartCampaign
  <2>3. Activate(c)
    BY <1>1 DEF StartCampaign
  <2> QED
    BY <1>0, <1>1, <2>2, <2>3, ActivateTypes DEF StartCampaign, UserFrame, TypeOK
<1>2. ASSUME NEW c \in Campaigns, PauseCampaign(c) PROVE TypeOK'
  <2>1. [campaign[c] EXCEPT !.status = "paused"] \in Campaign
    BY DEF TypeOK, Campaign
  <2> QED
    BY <1>0, <1>2, <2>1 DEF PauseCampaign, UserFrame, TypeOK
<1>3. ASSUME NEW c \in Campaigns, RestartCampaign(c) PROVE TypeOK'
  <2>1. \A l \in Leads :
          /\ [lead[l] EXCEPT !.status = "pending", !.step = 1, !.due = "now"] \in Lead
          /\ [lead[l] EXCEPT !.step = 1, !.due = "now"] \in Lead
          /\ [lead[l] EXCEPT !.due = "now"] \in Lead
    BY <1>0, SetStep, SetStatus
  <2>2. lead' \in [Leads -> Lead]
    BY <1>0, <1>3, <2>1 DEF RestartCampaign
  <2>3. Activate(c)
    BY <1>3 DEF RestartCampaign
  <2>4. passed' \in [Leads -> SUBSET Steps]
    BY <1>3 DEF RestartCampaign, TypeOK
  <2>5. resets' \in Nat
    <3>1. resets' = resets + 1 /\ resets \in Nat
      BY <1>3, Zenon DEF RestartCampaign, TypeOK
    <3> QED
      BY <3>1
  <2>6. UNCHANGED <<account, lease, profileLock, userBrowser>>
    BY <1>3 DEF RestartCampaign
  <2>7. /\ campaign' \in [Campaigns -> Campaign]
        /\ late' \in [Campaigns -> Nat]
        /\ queue' \subseteq Tokens \cup {NoToken}
    BY <2>3, ActivateTypes
  <2> QED
    BY <1>0, <2>2, <2>4, <2>5, <2>6, <2>7 DEF UserFrame, TypeOK
<1>4. ASSUME NEW c \in Campaigns, DeleteCampaign(c) PROVE TypeOK'
  <2>1. [status |-> "deleted", plan |-> {}] \in Campaign
    BY DEF Campaign
  <2> QED
    BY <1>0, <1>4, <2>1, NewLeadTyped DEF DeleteCampaign, UserFrame, TypeOK
<1>5. ASSUME NEW c \in Campaigns, NEW n \in Steps, DeleteStep(c, n)
      PROVE  TypeOK'
  <2>1. campaign[c] \in Campaign
    BY DEF TypeOK
  <2>2. [campaign[c] EXCEPT !.plan = campaign[c].plan \ {n}] \in Campaign
    BY <2>1 DEF Campaign
  <2> QED
    BY <1>0, <1>5, <2>2 DEF DeleteStep, UserFrame, TypeOK
<1>6. ASSUME NEW l \in Leads, AddLead(l) PROVE TypeOK'
  BY <1>0, <1>6, NewLeadTyped DEF AddLead, UserFrame, TypeOK
<1>7. ASSUME NEW l \in Leads, NEW st \in PatchStatuses \cup {lead[l].status},
             NEW n \in PatchSteps \cup {lead[l].step}, PatchLead(l, st, n)
      PROVE  TypeOK'
  <2>1. st \in LeadStatus /\ n \in 0..NumSteps
    BY <1>0, LeadFields, ConstantsAssumption
  <2>2. [lead[l] EXCEPT !.status = st, !.step = n] \in Lead
    BY <1>0, <2>1, SetStatus
  <2>3. lead' = [lead EXCEPT ![l] = [lead[l] EXCEPT !.status = st, !.step = n]]
    BY <1>0, <1>7 DEF PatchLead
  <2>4. lead' \in [Leads -> Lead]
    BY <1>0, <2>2, <2>3
  <2>5. passed' \in [Leads -> SUBSET Steps]
    <3>1. 1..(n - 1) \subseteq Steps
      BY <2>1, ConstantsAssumption DEF Steps
    <3> QED
      BY <1>7, <3>1 DEF PatchLead, TypeOK
  <2> QED
    BY <1>0, <1>7, <2>4, <2>5 DEF PatchLead, UserFrame, TypeOK
<1>8. ASSUME Reconnect PROVE TypeOK'
  BY <1>0, <1>8 DEF Reconnect, UserFrame, TypeOK
<1>9. ASSUME UserOpens PROVE TypeOK'
  BY <1>0, <1>9 DEF UserOpens, UserFrame, dbVars, TypeOK
<1> QED
  BY <1>1, <1>2, <1>3, <1>4, <1>5, <1>6, <1>7, <1>8, <1>9 DEF UserStep

LEMMA BeatTypes == TypeOK /\ (BeatFinds \/ BeatStep) => TypeOK'
<1> SUFFICES ASSUME TypeOK, BeatFinds \/ BeatStep PROVE TypeOK'
  OBVIOUS
<1> USE DEF TypeOK, BeatFrame, dbVars, history
<1>1. ASSUME BeatFinds PROVE TypeOK'
  BY <1>1 DEF BeatFinds
<1>2. ASSUME NEW t \in Tokens, BeatSends(t) PROVE TypeOK'
  BY <1>2 DEF BeatSends
<1>3. ASSUME BeatGivesUp PROVE TypeOK'
  BY <1>3 DEF BeatGivesUp
<1> QED
  BY <1>1, <1>2, <1>3 DEF BeatStep

LEMMA TimeTypes == TypeOK /\ (TimeStep \/ UserCloses) => TypeOK'
<1> SUFFICES ASSUME TypeOK, TimeStep \/ UserCloses PROVE TypeOK'
  OBVIOUS
<1>1. ASSUME NEW l \in Leads, TimePasses(l) PROVE TypeOK'
  <2>1. [lead[l] EXCEPT !.due = "now"] \in Lead
    <3>1. lead[l] \in Lead /\ "now" \in Due /\ 0 \in 0..NumSteps
      BY ConstantsAssumption DEF TypeOK, Due
    <3> QED
      BY <3>1, SetStep
  <2> QED
    BY <1>1, <2>1 DEF TimePasses, TimeFrame, TypeOK
<1>2. ASSUME LeaseExpires \/ SessionLockExpires \/ ProfileLockExpires
      PROVE  TypeOK'
  BY <1>2 DEF LeaseExpires, SessionLockExpires, ProfileLockExpires, TimeFrame,
              TypeOK
<1>3. ASSUME UserCloses PROVE TypeOK'
  BY <1>3 DEF UserCloses, dbVars, history, TypeOK
<1> QED
  BY <1>1, <1>2, <1>3 DEF TimeStep

-----------------------------------------------------------------------------
(* Types: the steps of the session outside the loop over the leads.         *)

LEMMA TakeTypes ==
    ASSUME TypeOK, NEW w \in Workers, TakeMessage(w)
    PROVE  TypeOK'
<1> USE DEF TaskFrame, dbVars, history
<1>1. ASSUME NEW t \in queue, TakeSession(w, t) PROVE TypeOK'
  <2>1. t \in Tokens \cup {NoToken}
    BY <1>1 DEF TypeOK
  <2>2. [Idle EXCEPT !.pc = "locked", !.token = t] \in WorkerState
    <3>1. "locked" \in Pc /\ "none" \in Result
      BY DEF Pc, Result
    <3> QED
      BY <2>1, <3>1, SetFromIdle
  <2>3. worker' \in [Workers -> WorkerState]
    BY <1>1, <2>2 DEF TakeSession, TypeOK
  <2> QED
    BY <1>1, <2>3 DEF TakeSession, TypeOK
<1>2. ASSUME NEW t \in queue, SkipSession(w, t) PROVE TypeOK'
  BY <1>2 DEF SkipSession, ReleaseLease, TypeOK
<1> QED
  BY <1>1, <1>2 DEF TakeMessage

\* A step that changes one worker, and the locks at most.
LEMMA TaskStepTypes ==
    ASSUME TypeOK, TaskFrame, NEW w \in Workers,
           \E x \in WorkerState : worker' = [worker EXCEPT ![w] = x],
           lease' \in Tokens \cup {NoToken},
           sessionLock' \in Workers \cup {Nobody},
           profileLock' \in Workers \cup {Nobody, User},
           queue' = queue, faults' \in Nat
    PROVE  TypeOK'
BY DEF TaskFrame, TypeOK, dbVars, history

LEMMA LoadDueTypes ==
    ASSUME TypeOK, NEW w \in Workers, LoadDue(w)
    PROVE  TypeOK'
<1> DEFINE s == [l \in Leads |->
                   IF l \in Snapshot
                   THEN [status |-> lead[l].status, step |-> lead[l].step]
                   ELSE Unseen]
           y == [worker[w] EXCEPT !.pc = "opening", !.todo = Snapshot, !.seen = s]
<1>1. \A l \in Leads : lead[l].status \in LeadStatus /\ lead[l].step \in 0..NumSteps
  BY LeadFields DEF TypeOK
<1>2. s \in [Leads -> SeenRow]
  BY <1>1, ConstantsAssumption DEF SeenRow, Unseen, LeadStatus
<1>3. Snapshot \subseteq Leads
  BY DEF Snapshot, DueLeads
<1> HIDE DEF s
<1>4. y \in WorkerState
  BY <1>2, <1>3, SetLoaded DEF TypeOK
<1>5. worker' = [worker EXCEPT ![w] = y] \/ Goto(w, "releasing")
  BY DEF LoadDue, s
<1> HIDE DEF y
<1>6. \E x \in WorkerState : worker' = [worker EXCEPT ![w] = x]
  BY <1>4, <1>5, GotoTyped DEF Pc
<1> QED
  BY <1>6, TaskStepTypes DEF LoadDue, redisVars, TypeOK

OuterStep(w) ==
    \/ LoadDue(w) \/ OpenProfile(w) \/ ProfileBusy(w)
    \/ SessionValid(w) \/ SessionInvalid(w)
    \/ LeadsDone(w) \/ CloseProfile(w) \/ EndSession(w)

LEMMA OuterTypes ==
    ASSUME TypeOK, NEW w \in Workers, OuterStep(w)
    PROVE  TypeOK'
<1>0. /\ lease \in Tokens \cup {NoToken}
      /\ sessionLock \in Workers \cup {Nobody}
      /\ profileLock \in Workers \cup {Nobody, User} /\ faults \in Nat
  BY DEF TypeOK
<1> DEFINE One == \E x \in WorkerState : worker' = [worker EXCEPT ![w] = x]
<1>1. CASE LoadDue(w)
  BY <1>1, LoadDueTypes
<1>2. CASE OpenProfile(w)
  <2>1. One
    BY <1>2, GotoTyped DEF OpenProfile, Pc
  <2> QED
    BY <1>0, <1>2, <2>1, TaskStepTypes DEF OpenProfile
<1>3. CASE ProfileBusy(w)
  <2>1. One
    BY <1>3, GotoTyped DEF ProfileBusy, Pc
  <2> QED
    BY <1>0, <1>3, <2>1, TaskStepTypes DEF ProfileBusy, redisVars
<1>4. CASE SessionValid(w)
  <2>1. One
    BY <1>4, GotoTyped DEF SessionValid, Pc
  <2> QED
    BY <1>0, <1>4, <2>1, TaskStepTypes DEF SessionValid, redisVars
<1>5. CASE SessionInvalid(w)
  <2>1. One
    BY <1>5, LeaveTyped DEF SessionInvalid, Result
  <2>2. faults' \in Nat
    BY <1>0, <1>5 DEF SessionInvalid
  <2>3. TaskFrame /\ UNCHANGED <<lease, sessionLock, profileLock, queue>>
    BY <1>5 DEF SessionInvalid, redisVars
  <2> QED
    BY <1>0, <2>1, <2>2, <2>3, TaskStepTypes
<1>6. CASE LeadsDone(w)
  <2>1. One
    BY <1>6, LeaveTyped DEF LeadsDone, Result
  <2> QED
    BY <1>0, <1>6, <2>1, TaskStepTypes DEF LeadsDone, redisVars
<1>7. CASE CloseProfile(w)
  <2>1. One
    BY <1>7, GotoTyped DEF CloseProfile, Pc
  <2> QED
    BY <1>0, <1>7, <2>1, TaskStepTypes DEF CloseProfile
<1>8. CASE EndSession(w)
  <2>1. One
    BY <1>8, IdleTyped DEF EndSession
  <2>2. lease' \in Tokens \cup {NoToken}
    BY <1>0, <1>8 DEF EndSession, ReleaseLease
  <2>3. sessionLock' \in Workers \cup {Nobody}
    BY <1>0, <1>8 DEF EndSession
  <2>4. TaskFrame /\ UNCHANGED <<profileLock, queue, faults>>
    BY <1>8 DEF EndSession
  <2> QED
    BY <1>0, <2>1, <2>2, <2>3, <2>4, TaskStepTypes
<1> QED
  BY <1>1, <1>2, <1>3, <1>4, <1>5, <1>6, <1>7, <1>8 DEF OuterStep

LEMMA CrashTypes ==
    ASSUME TypeOK, NEW w \in Workers, Crash(w)
    PROVE  TypeOK'
<1>1. worker[w].token \in Tokens \cup {NoToken}
  BY WorkerFields DEF TypeOK
<1> QED
  BY <1>1, IdleTyped DEF Crash, TypeOK, dbVars, history

-----------------------------------------------------------------------------
(* Types: the loop over the leads.                                          *)

\* A step of the loop changes one worker, one lead and the history.
LEMMA LeadStepTypes ==
    ASSUME TypeOK, LeadFrame, NEW w \in Workers,
           \E x \in WorkerState : worker' = [worker EXCEPT ![w] = x],
           account' \in {"active", "suspended"},
           lead' \in [Leads -> Lead], faults' \in Nat,
           performed' \in [Leads -> [Steps -> Nat]],
           passed' \in [Leads -> SUBSET Steps],
           waited' \in [Leads -> BOOLEAN],
           late' \in [Campaigns -> Nat]
    PROVE  TypeOK'
BY DEF LeadFrame, redisVars, TypeOK

LEMMA PassesTypes ==
    ASSUME TypeOK, NEW l \in Leads, NEW n \in Steps, Passes(l, n)
    PROVE  /\ passed' \in [Leads -> SUBSET Steps]
           /\ waited' \in [Leads -> BOOLEAN]
<1>1. passed[l] \cup {n} \in SUBSET Steps
  BY DEF TypeOK
<1>2. passed' = [passed EXCEPT ![l] = passed[l] \cup {n}]
  BY DEF Passes, TypeOK
<1>3. waited' = [waited EXCEPT ![l] = FALSE]
  BY DEF Passes
<1> QED
  BY <1>1, <1>2, <1>3 DEF TypeOK

LEMMA SkipLeadTypes ==
    ASSUME TypeOK, NEW w \in Workers, NEW l \in Leads, SkipLead(w, l)
    PROVE  TypeOK'
<1> DEFINE n == StepOf(w, l)
           row == Begun(w, l)[l]
<1>1. n \in Steps /\ row \in Lead /\ worker[w].fresh \in BOOLEAN
  BY StepOfTyped, BegunTyped, WorkerFields DEF TypeOK
<1>2. "later" \in Due /\ row.status \in LeadStatus /\ 0 \in 0..NumSteps
  BY <1>1, LeadFields, ConstantsAssumption DEF Due
<1>3. [row EXCEPT !.due = "later"] \in Lead
  BY <1>1, <1>2, SetStep
<1>4. Advance(row, l, n, row.status) \in Lead
  BY <1>1, <1>2, AdvanceTyped
<1>5. /\ NextLead(w, l, worker[w].fresh) /\ LeadFrame
      /\ UNCHANGED <<account, faults, performed, late>>
  BY DEF SkipLead
<1>6. \/ /\ lead' = [lead EXCEPT ![l] = [row EXCEPT !.due = "later"]]
         /\ UNCHANGED <<passed, waited>>
      \/ /\ lead' = [lead EXCEPT ![l] = Advance(row, l, n, row.status)]
         /\ Passes(l, n)
  BY DEF SkipLead
<1> HIDE DEF n, row
<1>7. \E x \in WorkerState : worker' = [worker EXCEPT ![w] = x]
  BY <1>1, <1>5, NextLeadTyped
<1>8. lead' \in [Leads -> Lead]
  BY <1>3, <1>4, <1>6 DEF TypeOK
<1>9. passed' \in [Leads -> SUBSET Steps] /\ waited' \in [Leads -> BOOLEAN]
  BY <1>1, <1>6, PassesTypes DEF TypeOK
<1> QED
  BY <1>5, <1>7, <1>8, <1>9, LeadStepTypes DEF TypeOK

LEMMA BeginTypes ==
    ASSUME TypeOK, NEW w \in Workers, NEW l \in Leads, BeginAction(w, l)
    PROVE  TypeOK'
<1> DEFINE f == Begun(w, l)
           x == [worker[w] EXCEPT !.pc = "acting", !.cur = {l}]
<1>1. f \in [Leads -> Lead]
  BY BegunTyped
<1>2. lead' = [f EXCEPT ![l].running = f[l].running + 1]
  BY <1>1 DEF BeginAction
<1> HIDE DEF f
<1>3. f[l].running + 1 \in Int
  BY <1>1, LeadFields
<1>4. [f[l] EXCEPT !.running = f[l].running + 1] \in Lead
  BY <1>1, <1>3, SetRunning
<1>5. lead' \in [Leads -> Lead]
  BY <1>1, <1>2, <1>4
<1>6. x \in WorkerState
  <2>1. worker[w] \in WorkerState /\ "acting" \in Pc /\ {l} \in SUBSET Leads
    BY DEF TypeOK, Pc
  <2> QED
    BY <2>1, SetPcAndCur
<1>7. worker' = [worker EXCEPT ![w] = x]
  BY DEF BeginAction, TypeOK
<1> HIDE DEF x
<1>8. LeadFrame /\ UNCHANGED <<account, faults, history>>
  BY DEF BeginAction
<1> QED
  BY <1>5, <1>6, <1>7, <1>8, LeadStepTypes DEF TypeOK, history

LEMMA ActTypes ==
    ASSUME TypeOK, NEW w \in Workers, NEW l \in Leads,
           NEW result \in {"ok", "fail", "blank", "stale", "error"},
           NEW landed \in BOOLEAN, Act(w, l, result, landed)
    PROVE  TypeOK'
<1> DEFINE n == StepOf(w, l)
           c == CampaignOf[l]
           x == [worker[w] EXCEPT !.pc = "recording", !.result = result]
<1>1. n \in Steps /\ c \in Campaigns
  BY StepOfTyped, ConstantsAssumption
<1>2. /\ faults' = IF result = "error" THEN faults + 1 ELSE faults
      /\ LeadFrame /\ UNCHANGED <<account, lead, passed, waited>>
  BY DEF Act
<1>3. \/ performed' = [performed EXCEPT ![l][n] = performed[l][n] + 1]
      \/ performed' = performed
  BY <1>1 DEF Act, TypeOK
<1>4. late' = late \/ late' = [late EXCEPT ![c] = late[c] + 1]
  BY <1>1 DEF Act, TypeOK
<1>5. x \in WorkerState
  <2>1. worker[w] \in WorkerState /\ "recording" \in Pc /\ result \in Result
    BY DEF TypeOK, Pc, Result
  <2> QED
    BY <2>1, SetPcAndResult
<1>6. worker' = [worker EXCEPT ![w] = x]
  BY DEF Act, TypeOK
<1> HIDE DEF n, c, x
<1>7. [performed[l] EXCEPT ![n] = performed[l][n] + 1] \in [Steps -> Nat]
  BY <1>1 DEF TypeOK
<1>8. performed' \in [Leads -> [Steps -> Nat]]
  BY <1>3, <1>7 DEF TypeOK
<1>9. late' \in [Campaigns -> Nat] /\ faults' \in Nat
  BY <1>1, <1>2, <1>4 DEF TypeOK
<1> QED
  BY <1>2, <1>5, <1>6, <1>8, <1>9, LeadStepTypes DEF TypeOK

\* The steps that record a result.
LEMMA RecordTypes ==
    ASSUME TypeOK, NEW w \in Workers, NEW l \in Leads,
           \/ RecordSuccess(w, l) \/ RecordRetry(w, l) \/ RecordFailure(w, l)
           \/ RecordStale(w, l) \/ RecordError(w, l) \/ RecordNothing(w, l)
    PROVE  TypeOK'
<1> DEFINE n == StepOf(w, l)
           failed == JobFails(JobEnds(lead[l]), n)
           One == \E x \in WorkerState : worker' = [worker EXCEPT ![w] = x]
<1>1. n \in Steps /\ lead[l] \in Lead /\ worker[w].fresh \in BOOLEAN
  BY StepOfTyped, WorkerFields DEF TypeOK
<1>2. failed \in Lead /\ JobFails(lead[l], n) \in Lead
  BY <1>1, JobTyped
<1>3. "failed" \in LeadStatus /\ "later" \in Due /\ "stale" \in Result
  BY DEF LeadStatus, Due, Result
<1>4. Moved(w, l, n) \in Lead /\ Stopped(w, l, n) \in Lead
  BY <1>1, MovedTyped, StoppedTyped
<1>5. \A b \in BOOLEAN : NextLead(w, l, b) => One
  BY NextLeadTyped
<1>6. ASSUME NEW r, Records(w, l, r)
      PROVE  LeadFrame /\ UNCHANGED <<faults, performed, late>>
  BY <1>6 DEF Records
<1>7. CASE RecordSuccess(w, l)
  <2>1. /\ Records(w, l, "ok") /\ Passes(l, n) /\ UNCHANGED account
        /\ lead' = [lead EXCEPT ![l] = Moved(w, l, n)]
        /\ NextLead(w, l, worker[w].fresh)
    BY <1>7 DEF RecordSuccess
  <2> HIDE DEF n, One
  <2>2. lead' \in [Leads -> Lead]
    BY <1>4, <2>1 DEF TypeOK
  <2>3. passed' \in [Leads -> SUBSET Steps] /\ waited' \in [Leads -> BOOLEAN]
    BY <1>1, <2>1, PassesTypes
  <2> USE DEF One
  <2>4. One
    BY <1>1, <1>5, <2>1
  <2> QED
    BY <1>6, <2>1, <2>2, <2>3, <2>4, LeadStepTypes DEF TypeOK
<1>8. CASE RecordRetry(w, l)
  <2>1. /\ Records(w, l, "blank") /\ UNCHANGED <<account, passed, waited>>
        /\ lead' = [lead EXCEPT ![l] = [failed EXCEPT !.due = "later",
                                                      !.touched = TRUE]]
        /\ NextLead(w, l, worker[w].fresh)
    BY <1>8 DEF RecordRetry
  <2> HIDE DEF n, failed
  <2>2. [failed EXCEPT !.due = "later", !.touched = TRUE] \in Lead
    BY <1>2, <1>3, SetTouched
  <2>3. lead' \in [Leads -> Lead]
    BY <2>1, <2>2 DEF TypeOK
  <2>4. One
    BY <1>1, <1>5, <2>1
  <2> QED
    BY <1>6, <2>1, <2>3, <2>4, LeadStepTypes DEF TypeOK
<1>9. CASE RecordFailure(w, l)
  <2>1. /\ Records(w, l, "fail") \/ Records(w, l, "blank")
        /\ UNCHANGED <<account, passed, waited>>
        /\ lead' = [lead EXCEPT ![l] = Stopped(w, l, n)]
        /\ NextLead(w, l, worker[w].fresh)
    BY <1>9 DEF RecordFailure
  <2> HIDE DEF n
  <2>2. lead' \in [Leads -> Lead]
    BY <1>4, <2>1 DEF TypeOK
  <2>3. One
    BY <1>1, <1>5, <2>1
  <2> QED
    BY <1>6, <2>1, <2>2, <2>3, LeadStepTypes DEF TypeOK
<1>10. CASE RecordStale(w, l)
  <2>1. /\ Records(w, l, "stale") /\ UNCHANGED <<passed, waited>>
        /\ account' = "suspended"
        /\ lead' = [lead EXCEPT ![l] = [failed EXCEPT !.status = "failed"]]
        /\ Leave(w, "stale")
    BY <1>10 DEF RecordStale, AfterStale
  <2> HIDE DEF n, failed
  <2>2. [failed EXCEPT !.status = "failed"] \in Lead
    <3>1. 0 \in 0..NumSteps
      BY ConstantsAssumption
    <3> QED
      BY <1>2, <1>3, <3>1, SetStatus
  <2>3. lead' \in [Leads -> Lead]
    BY <2>1, <2>2 DEF TypeOK
  <2>4. One
    BY <1>3, <2>1, LeaveTyped
  <2> QED
    BY <1>6, <2>1, <2>3, <2>4, LeadStepTypes DEF TypeOK
<1>11. CASE RecordError(w, l)
  <2>1. /\ Records(w, l, "error") /\ UNCHANGED <<account, passed, waited>>
        /\ lead' = [lead EXCEPT ![l] = JobFails(lead[l], n)]
        /\ NextLead(w, l, TRUE)
    BY <1>11 DEF RecordError
  <2> HIDE DEF n
  <2>2. lead' \in [Leads -> Lead]
    BY <1>2, <2>1 DEF TypeOK
  <2>3. One
    BY <1>5, <2>1
  <2> QED
    BY <1>6, <2>1, <2>2, <2>3, LeadStepTypes DEF TypeOK
<1>12. CASE RecordNothing(w, l)
  <2>1. /\ LeadFrame /\ UNCHANGED <<account, lead, faults, history>>
        /\ NextLead(w, l, TRUE)
    BY <1>12 DEF RecordNothing
  <2>2. One
    BY <1>5, <2>1
  <2> QED
    BY <2>1, <2>2, LeadStepTypes DEF TypeOK, history
<1> QED
  BY <1>7, <1>8, <1>9, <1>10, <1>11, <1>12

LEMMA LoopTypes ==
    ASSUME TypeOK, NEW w \in Workers, NEW l \in Leads, LeadStep(w, l)
    PROVE  TypeOK'
<1> DEFINE One == \E x \in WorkerState : worker' = [worker EXCEPT ![w] = x]
<1>1. "none" \in Result /\ worker[w].fresh \in BOOLEAN
  BY WorkerFields DEF Result, TypeOK
<1>2. ASSUME NEW b \in BOOLEAN, NextLead(w, l, b) \/ Leave(w, "none")
      PROVE  One
  BY <1>1, <1>2, NextLeadTyped, LeaveTyped
<1>3. CASE RowsGone(w, l)
  <2>1. One
    BY <1>2, <1>3 DEF RowsGone
  <2> QED
    BY <1>3, <2>1, LeadStepTypes DEF RowsGone, TypeOK, history
<1>4. CASE SkipMismatch(w, l)
  <2>1. One
    BY <1>1, <1>2, <1>4 DEF SkipMismatch
  <2>2. lead' \in [Leads -> Lead]
    BY <1>4, BegunTyped DEF SkipMismatch
  <2> QED
    BY <1>4, <2>1, <2>2, LeadStepTypes DEF SkipMismatch, TypeOK, history
<1>5. CASE StopSession(w, l)
  <2>1. One
    BY <1>2, <1>5 DEF StopSession
  <2>2. lead' \in [Leads -> Lead]
    BY <1>5, BegunTyped DEF StopSession
  <2> QED
    BY <1>5, <2>1, <2>2, LeadStepTypes DEF StopSession, TypeOK, history
<1> QED
  BY <1>3, <1>4, <1>5, SkipLeadTypes, BeginTypes, ActTypes, RecordTypes
  DEF LeadStep

LEMMA NextTypes == TypeOK /\ [Next]_vars => TypeOK'
<1> SUFFICES ASSUME TypeOK, [Next]_vars PROVE TypeOK'
  OBVIOUS
<1>1. CASE UNCHANGED vars
  BY <1>1 DEF vars, dbVars, redisVars, history, TypeOK
<1>2. ASSUME NEW w \in Workers, SessionStep(w) PROVE TypeOK'
  BY <1>2, OuterTypes, LoopTypes DEF SessionStep, OuterStep
<1> QED
  BY <1>1, <1>2, UserTypes, BeatTypes, TimeTypes, TakeTypes, CrashTypes DEF Next

\* Every reachable state is well typed: requests, sessions, retries, crashes
\* and expiring locks write only values their tables admit.
THEOREM TypeCorrect == Spec => []TypeOK
BY InitTypes, NextTypes, PTL DEF Spec

-----------------------------------------------------------------------------
(* Safety while sessions end before their locks do.  The invariant names    *)
(* who holds what: a session its account's session lock, a browser its      *)
(* profile lock; and a session beyond its look at the account works for an  *)
(* active one, because only the session itself could have suspended it.     *)

Working == {"opening", "verifying", "leads", "acting", "recording"}
Open    == {"verifying", "leads", "acting", "recording", "closing"}

OneSession == \A w \in Workers : worker[w].pc # "idle" => sessionLock = w

HoldsProfile ==
    /\ \A w \in Workers : worker[w].pc \in Open => profileLock = w
    /\ userBrowser => profileLock = User

ActiveAccount ==
    \A w \in Workers : worker[w].pc \in Working => account = "active"

LateCounts ==
    /\ \A c \in Campaigns : campaign[c].status = "active" => late[c] = 0
    /\ \A w \in Workers, l \in Leads :
          worker[w].pc = "acting" /\ l \in worker[w].cur
              => late[CampaignOf[l]] = 0

SafetyInv == /\ TypeOK
             /\ OneSession
             /\ HoldsProfile
             /\ ActiveAccount
             /\ LateCounts
             /\ PauseStopsSession

LEMMA InitSafety == Init => SafetyInv
<1> SUFFICES ASSUME Init PROVE SafetyInv
  OBVIOUS
<1>1. \A w \in Workers : worker[w].pc = "idle"
  BY DEF Init, Idle
<1>2. \A c \in Campaigns : late[c] = 0
  BY DEF Init
<1>3. userBrowser = FALSE
  BY DEF Init
<1> QED
  BY <1>1, <1>2, <1>3, InitTypes
  DEF SafetyInv, OneSession, HoldsProfile, ActiveAccount, LateCounts,
      PauseStopsSession, Open, Working

\* A step of a running session that leaves locks, account and campaigns as
\* they are.
LEMMA QuietStep ==
    ASSUME SafetyInv, TypeOK', NEW w \in Workers, NEW x \in WorkerState,
           worker' = [worker EXCEPT ![w] = x],
           worker[w].pc # "idle",
           UNCHANGED <<account, campaign, sessionLock, profileLock,
                       userBrowser, late>>,
           x.pc \in Open => worker[w].pc \in Open,
           x.pc \in Working => account = "active",
           x.pc = "acting" => \A l \in x.cur : late[CampaignOf[l]] = 0
    PROVE  SafetyInv'
<1>1. /\ worker \in [Workers -> WorkerState] /\ worker'[w] = x
      /\ \A v \in Workers \ {w} : worker'[v] = worker[v]
  BY DEF SafetyInv, TypeOK
<1>2. OneSession'
  BY <1>1 DEF SafetyInv, OneSession
<1>3. HoldsProfile'
  BY <1>1 DEF SafetyInv, HoldsProfile
<1>4. ActiveAccount'
  BY <1>1 DEF SafetyInv, ActiveAccount
<1>5. LateCounts'
  BY <1>1 DEF SafetyInv, LateCounts
<1>6. PauseStopsSession'
  BY DEF SafetyInv, PauseStopsSession
<1> QED
  BY <1>2, <1>3, <1>4, <1>5, <1>6 DEF SafetyInv

\* A step that changes no worker, no account and no session lock.
LEMMA IdleStep ==
    ASSUME SafetyInv, TypeOK', UNCHANGED <<account, campaign, sessionLock,
           profileLock, worker, userBrowser, late>>
    PROVE  SafetyInv'
BY DEF SafetyInv, OneSession, HoldsProfile, ActiveAccount, LateCounts,
       PauseStopsSession

LEMMA OuterSafety ==
    ASSUME SafetyInv, TypeOK', NEW w \in Workers, OuterStep(w)
    PROVE  SafetyInv'
<1> USE DEF TaskFrame, dbVars, history, redisVars
<1>0. TypeOK
  BY DEF SafetyInv
<1>1. CASE LoadDue(w)
  <2>1. worker[w].pc = "locked" /\ UNCHANGED <<account, campaign, sessionLock,
          profileLock, userBrowser, late>>
    BY <1>1 DEF LoadDue
  <2>2. CASE Goto(w, "releasing")
    <3>1. PICK x \in WorkerState : x.pc = "releasing" /\ worker' = [worker EXCEPT ![w] = x]
      BY <1>0, <2>2, GotoTyped DEF Pc
    <3> QED
      BY <2>1, <3>1, QuietStep DEF Open, Working
  <2>3. CASE ~Goto(w, "releasing")
    <3> DEFINE s == [l \in Leads |->
                       IF l \in Snapshot
                       THEN [status |-> lead[l].status, step |-> lead[l].step]
                       ELSE Unseen]
               y == [worker[w] EXCEPT !.pc = "opening", !.todo = Snapshot, !.seen = s]
    <3>1. account = "active" /\ worker' = [worker EXCEPT ![w] = y]
      BY <1>1, <2>3 DEF LoadDue
    <3>2. worker'[w] = y /\ worker'[w] \in WorkerState
      BY <1>0, <3>1 DEF TypeOK
    <3>3. y.pc = "opening" /\ y \in WorkerState
      BY <1>0, <3>2 DEF WorkerState, TypeOK
    <3> HIDE DEF y
    <3> QED
      BY <2>1, <3>1, <3>3, QuietStep DEF Open
  <2> QED
    BY <2>2, <2>3
<1>2. CASE OpenProfile(w)
  <2>1. PICK x \in WorkerState : x.pc = "verifying" /\ worker' = [worker EXCEPT ![w] = x]
    BY <1>0, <1>2, GotoTyped DEF OpenProfile, Pc
  <2>2. /\ worker[w].pc = "opening" /\ profileLock = Nobody /\ profileLock' = w
        /\ UNCHANGED <<account, campaign, sessionLock, userBrowser, late>>
    BY <1>2 DEF OpenProfile, ProfileFree
  <2>3. /\ worker'[w] = x
        /\ \A v \in Workers \ {w} : worker'[v] = worker[v]
    BY <1>0, <2>1 DEF TypeOK
  <2>4. HoldsProfile'
    BY <2>1, <2>2, <2>3, ConstantsAssumption DEF SafetyInv, HoldsProfile, Open
  <2>5. OneSession' /\ ActiveAccount'
    BY <2>1, <2>2, <2>3 DEF SafetyInv, OneSession, ActiveAccount, Working
  <2>6. LateCounts' /\ PauseStopsSession'
    BY <2>1, <2>2, <2>3 DEF SafetyInv, LateCounts, PauseStopsSession
  <2> QED
    BY <2>4, <2>5, <2>6 DEF SafetyInv
<1>3. CASE ProfileBusy(w)
  <2>1. PICK x \in WorkerState : x.pc = "releasing" /\ worker' = [worker EXCEPT ![w] = x]
    BY <1>0, <1>3, GotoTyped DEF ProfileBusy, Pc
  <2> QED
    BY <1>3, <2>1, QuietStep DEF ProfileBusy, Open, Working
<1>4. CASE SessionValid(w)
  <2>1. PICK x \in WorkerState : x.pc = "leads" /\ worker' = [worker EXCEPT ![w] = x]
    BY <1>0, <1>4, GotoTyped DEF SessionValid, Pc
  <2>2. account = "active"
    BY <1>4 DEF SessionValid, SafetyInv, ActiveAccount, Working
  <2> QED
    BY <1>4, <2>1, <2>2, QuietStep DEF SessionValid, Open
<1>5. CASE SessionInvalid(w) \/ LeadsDone(w)
  <2>1. PICK x \in WorkerState : x.pc = "closing" /\ worker' = [worker EXCEPT ![w] = x]
    BY <1>0, <1>5, LeaveTyped DEF SessionInvalid, LeadsDone, Result
  <2> QED
    BY <1>5, <2>1, QuietStep DEF SessionInvalid, LeadsDone, Open, Working
<1>6. CASE CloseProfile(w)
  <2>1. PICK x \in WorkerState : x.pc = "releasing" /\ worker' = [worker EXCEPT ![w] = x]
    BY <1>0, <1>6, GotoTyped DEF CloseProfile, Pc
  <2>2. /\ worker[w].pc = "closing"
        /\ profileLock' = IF profileLock = w THEN Nobody ELSE profileLock
        /\ UNCHANGED <<account, campaign, sessionLock, userBrowser, late>>
    BY <1>6 DEF CloseProfile
  <2>3. /\ worker'[w] = x
        /\ \A v \in Workers \ {w} : worker'[v] = worker[v]
    BY <1>0, <2>1 DEF TypeOK
  <2>4. HoldsProfile'
    BY <2>1, <2>2, <2>3, ConstantsAssumption DEF SafetyInv, HoldsProfile, Open
  <2>5. OneSession' /\ ActiveAccount'
    BY <2>1, <2>2, <2>3 DEF SafetyInv, OneSession, ActiveAccount, Working
  <2>6. LateCounts' /\ PauseStopsSession'
    BY <2>1, <2>2, <2>3 DEF SafetyInv, LateCounts, PauseStopsSession
  <2> QED
    BY <2>4, <2>5, <2>6 DEF SafetyInv
<1>7. CASE EndSession(w)
  <2>1. /\ worker[w].pc = "releasing" /\ worker' = [worker EXCEPT ![w] = Idle]
        /\ sessionLock' = IF sessionLock = w THEN Nobody ELSE sessionLock
        /\ UNCHANGED <<account, campaign, profileLock, userBrowser, late>>
    BY <1>7 DEF EndSession
  <2>2. /\ worker'[w].pc = "idle"
        /\ \A v \in Workers \ {w} : worker'[v] = worker[v]
    BY <1>0, <2>1 DEF TypeOK, Idle
  <2>3. OneSession'
    BY <2>1, <2>2 DEF SafetyInv, OneSession
  <2>4. HoldsProfile' /\ ActiveAccount'
    BY <2>1, <2>2 DEF SafetyInv, HoldsProfile, ActiveAccount, Open, Working
  <2>5. LateCounts' /\ PauseStopsSession'
    BY <2>1, <2>2 DEF SafetyInv, LateCounts, PauseStopsSession
  <2> QED
    BY <2>3, <2>4, <2>5 DEF SafetyInv
<1> QED
  BY <1>1, <1>2, <1>3, <1>4, <1>5, <1>6, <1>7 DEF OuterStep

LEMMA LoopSafety ==
    ASSUME SafetyInv, TypeOK', NEW w \in Workers, NEW l \in Leads,
           LeadStep(w, l)
    PROVE  SafetyInv'
<1>0. /\ TypeOK /\ "none" \in Result /\ "stale" \in Result
      /\ worker[w].fresh \in BOOLEAN /\ CampaignOf[l] \in Campaigns
  BY WorkerFields, ConstantsAssumption DEF SafetyInv, TypeOK, Result
<1> DEFINE Quiet == UNCHANGED <<account, campaign, sessionLock, profileLock,
                                userBrowser, late>>
           InLoop == worker[w].pc \in {"leads", "acting", "recording"}
\* Most steps end with the next lead, or with the session.
<1>1. ASSUME NEW b \in BOOLEAN, NextLead(w, l, b), Quiet, InLoop
      PROVE  SafetyInv'
  <2>1. PICK x \in WorkerState : /\ x.pc = "leads"
                                 /\ worker' = [worker EXCEPT ![w] = x]
    BY <1>0, <1>1, NextLeadTyped
  <2>2. account = "active"
    BY <1>1 DEF SafetyInv, ActiveAccount, Working
  <2> QED
    BY <1>1, <2>1, <2>2, QuietStep DEF Open
<1>2. ASSUME Leave(w, "none"), Quiet, InLoop PROVE SafetyInv'
  <2>1. PICK x \in WorkerState : /\ x.pc = "closing"
                                 /\ worker' = [worker EXCEPT ![w] = x]
    BY <1>0, <1>2, LeaveTyped
  <2> QED
    BY <1>2, <2>1, QuietStep DEF Open, Working
<1>3. CASE RowsGone(w, l) \/ StopSession(w, l)
  <2>1. Leave(w, "none") /\ Quiet /\ InLoop
    BY <1>3 DEF RowsGone, StopSession, Ready, Turn, LeadFrame, redisVars, history
  <2> QED
    BY <1>2, <2>1
<1>4. CASE SkipMismatch(w, l) \/ SkipLead(w, l)
  <2>1. NextLead(w, l, worker[w].fresh) /\ Quiet /\ InLoop
    BY <1>4 DEF SkipMismatch, SkipLead, Ready, Turn, LeadFrame, redisVars, history
  <2> QED
    BY <1>0, <1>1, <2>1
<1>5. CASE BeginAction(w, l)
  <2> DEFINE x == [worker[w] EXCEPT !.pc = "acting", !.cur = {l}]
  <2>1. x \in WorkerState /\ x.pc = "acting" /\ x.cur = {l}
    <3>1. worker[w] \in WorkerState /\ "acting" \in Pc /\ {l} \in SUBSET Leads
      BY <1>0 DEF TypeOK, Pc
    <3>2. \A y \in WorkerState, c \in Pc, C \in SUBSET Leads :
             /\ [y EXCEPT !.pc = c, !.cur = C] \in WorkerState
             /\ [y EXCEPT !.pc = c, !.cur = C].pc = c
             /\ [y EXCEPT !.pc = c, !.cur = C].cur = C
      BY SetPcAndCur, Zenon
    <3>3. \A C \in SUBSET Leads :
             /\ [worker[w] EXCEPT !.pc = "acting", !.cur = C] \in WorkerState
             /\ [worker[w] EXCEPT !.pc = "acting", !.cur = C].pc = "acting"
             /\ [worker[w] EXCEPT !.pc = "acting", !.cur = C].cur = C
      BY <3>1, <3>2, Zenon
    <3> QED
      BY <3>1, <3>3, Zenon
  <2>2. worker' = [worker EXCEPT ![w] = x]
    BY <1>0, <1>5 DEF BeginAction, TypeOK
  <2> HIDE DEF x
  <2>3. Quiet /\ worker[w].pc = "leads" /\ campaign[CampaignOf[l]].status = "active"
    BY <1>5 DEF BeginAction, Ready, Turn, LeadFrame, redisVars, history,
                CampaignGoesOn, StatusOf
  <2>4. late[CampaignOf[l]] = 0 /\ account = "active"
    BY <1>0, <2>3 DEF SafetyInv, LateCounts, ActiveAccount, Working
  <2> QED
    BY <2>1, <2>2, <2>3, <2>4, QuietStep DEF Open
<1>6. ASSUME NEW result \in {"ok", "fail", "blank", "stale", "error"},
             NEW landed \in BOOLEAN, Act(w, l, result, landed)
      PROVE  SafetyInv'
  <2> DEFINE x == [worker[w] EXCEPT !.pc = "recording", !.result = result]
  <2>1. x \in WorkerState /\ x.pc = "recording"
    <3>1. worker[w] \in WorkerState /\ "recording" \in Pc /\ result \in Result
      BY <1>0 DEF TypeOK, Pc, Result
    <3> QED
      BY <3>1, SetPcAndResult
  <2>2. worker' = [worker EXCEPT ![w] = x]
    BY <1>0, <1>6 DEF Act, TypeOK
  <2> HIDE DEF x
  <2>3. /\ worker[w].pc = "acting" /\ l \in worker[w].cur
        /\ UNCHANGED <<account, campaign, sessionLock, profileLock, userBrowser>>
    BY <1>6 DEF Act, LeadFrame, redisVars
  <2>4. \/ late' = late
        \/ /\ campaign[CampaignOf[l]].status # "active"
           /\ late' = [late EXCEPT ![CampaignOf[l]] = late[CampaignOf[l]] + 1]
    BY <1>0, <1>6 DEF Act, StatusOf, TypeOK
  <2>5. late[CampaignOf[l]] = 0 /\ late \in [Campaigns -> Nat]
    BY <1>0, <2>3 DEF SafetyInv, LateCounts, TypeOK
  <2>6. /\ worker'[w] = x
        /\ \A v \in Workers \ {w} : worker'[v] = worker[v]
    BY <1>0, <2>2 DEF TypeOK
  <2>7. OneSession' /\ HoldsProfile' /\ ActiveAccount'
    BY <2>1, <2>3, <2>6
    DEF SafetyInv, OneSession, HoldsProfile, ActiveAccount, Open, Working
  <2>8. \A v \in Workers : worker'[v].pc # "acting"
    BY <2>1, <2>3, <2>6 DEF SafetyInv, OneSession
  <2>9. LateCounts'
    BY <2>3, <2>4, <2>5, <2>8 DEF SafetyInv, LateCounts
  <2>10. PauseStopsSession'
    BY <2>4, <2>5 DEF SafetyInv, PauseStopsSession
  <2> QED
    BY <2>7, <2>9, <2>10 DEF SafetyInv
<1>7. CASE RecordSuccess(w, l) \/ RecordRetry(w, l) \/ RecordFailure(w, l)
  <2>1. NextLead(w, l, worker[w].fresh) /\ Quiet /\ InLoop
    BY <1>7 DEF RecordSuccess, RecordRetry, RecordFailure, Records, LeadFrame,
                redisVars
  <2> QED
    BY <1>0, <1>1, <2>1
<1>8. CASE RecordError(w, l) \/ RecordNothing(w, l)
  <2>1. NextLead(w, l, TRUE) /\ Quiet /\ InLoop
    BY <1>8 DEF RecordError, RecordNothing, Records, LeadFrame, redisVars, history
  <2> QED
    BY <1>1, <2>1
\* The one step that suspends the account is the session's own last one.
<1>9. CASE RecordStale(w, l)
  <2>1. /\ Leave(w, "stale") /\ worker[w].pc = "recording"
        /\ UNCHANGED <<campaign, sessionLock, profileLock, userBrowser, late>>
    BY <1>9 DEF RecordStale, AfterStale, Records, LeadFrame, redisVars
  <2>2. PICK x \in WorkerState : /\ x.pc = "closing"
                                 /\ worker' = [worker EXCEPT ![w] = x]
    BY <1>0, <2>1, LeaveTyped
  <2>3. /\ worker'[w] = x
        /\ \A v \in Workers \ {w} : worker'[v] = worker[v]
    BY <1>0, <2>2 DEF TypeOK
  <2>4. \A v \in Workers : worker'[v].pc \notin Working
    BY <2>1, <2>2, <2>3 DEF SafetyInv, OneSession, Working
  <2>5. ActiveAccount'
    BY <2>4 DEF ActiveAccount
  <2>6. OneSession' /\ HoldsProfile'
    BY <2>1, <2>2, <2>3 DEF SafetyInv, OneSession, HoldsProfile, Open
  <2>7. LateCounts' /\ PauseStopsSession'
    BY <2>1, <2>2, <2>3 DEF SafetyInv, LateCounts, PauseStopsSession
  <2> QED
    BY <2>5, <2>6, <2>7 DEF SafetyInv
<1> QED
  BY <1>3, <1>4, <1>5, <1>6, <1>7, <1>8, <1>9 DEF LeadStep

LEMMA TakeSafety ==
    ASSUME SafetyInv, TypeOK', NEW w \in Workers, TakeMessage(w)
    PROVE  SafetyInv'
<1> USE DEF TaskFrame, dbVars, history
<1>0. TypeOK
  BY DEF SafetyInv
<1>1. ASSUME NEW t \in queue, TakeSession(w, t) PROVE SafetyInv'
  <2> DEFINE x == [Idle EXCEPT !.pc = "locked", !.token = t]
  <2>1. x.pc = "locked"
    BY DEF Idle
  <2>2. /\ worker' = [worker EXCEPT ![w] = x]
        /\ sessionLock = Nobody /\ sessionLock' = w
        /\ UNCHANGED <<account, campaign, profileLock, userBrowser, late>>
    BY <1>1 DEF TakeSession, SessionFree
  <2> HIDE DEF x
  <2>3. /\ worker'[w] = x
        /\ \A v \in Workers \ {w} : worker'[v] = worker[v]
    BY <1>0, <2>2 DEF TypeOK
  <2>4. \A v \in Workers : worker[v].pc = "idle"
    BY <2>2, ConstantsAssumption DEF SafetyInv, OneSession
  <2>5. OneSession' /\ ActiveAccount' /\ HoldsProfile'
    BY <2>1, <2>2, <2>3, <2>4
    DEF SafetyInv, OneSession, ActiveAccount, HoldsProfile, Open, Working
  <2>6. LateCounts' /\ PauseStopsSession'
    BY <2>1, <2>2, <2>3 DEF SafetyInv, LateCounts, PauseStopsSession
  <2> QED
    BY <2>5, <2>6 DEF SafetyInv
<1>2. ASSUME NEW t \in queue, SkipSession(w, t) PROVE SafetyInv'
  BY <1>2, IdleStep DEF SkipSession
<1> QED
  BY <1>1, <1>2 DEF TakeMessage

LEMMA CrashSafety ==
    ASSUME SafetyInv, TypeOK', NEW w \in Workers, Crash(w)
    PROVE  SafetyInv'
<1>1. /\ worker' = [worker EXCEPT ![w] = Idle]
      /\ UNCHANGED <<account, campaign, sessionLock, profileLock, userBrowser,
                     late>>
  BY DEF Crash, dbVars, history
<1>2. /\ worker'[w].pc = "idle"
      /\ \A v \in Workers \ {w} : worker'[v] = worker[v]
  BY <1>1 DEF SafetyInv, TypeOK, Idle
<1>3. OneSession' /\ HoldsProfile' /\ ActiveAccount'
  BY <1>1, <1>2
  DEF SafetyInv, OneSession, HoldsProfile, ActiveAccount, Open, Working
<1>4. LateCounts' /\ PauseStopsSession'
  BY <1>1, <1>2 DEF SafetyInv, LateCounts, PauseStopsSession
<1> QED
  BY <1>3, <1>4 DEF SafetyInv

LEMMA UserSafety ==
    ASSUME SafetyInv, TypeOK', UserStep
    PROVE  SafetyInv'
<1>0. TypeOK /\ UserFrame
  BY DEF SafetyInv, UserStep, UserFrame
<1>1. ASSUME NEW c \in Campaigns, Activate(c), UserFrame,
             UNCHANGED <<account, profileLock, userBrowser>>
      PROVE  SafetyInv'
  <2>1. late' = [late EXCEPT ![c] = 0]
    BY <1>1 DEF Activate
  <2>2. \A d \in Campaigns : late'[d] = 0 \/ late'[d] = late[d]
    BY <1>0, <2>1 DEF TypeOK
  <2>3. late'[c] = 0 /\ \A d \in Campaigns \ {c} : campaign'[d] = campaign[d]
    BY <1>0, <1>1, <2>1 DEF Activate, TypeOK
  <2>4. LateCounts'
    BY <1>1, <2>2, <2>3, ConstantsAssumption DEF SafetyInv, LateCounts, UserFrame
  <2>5. PauseStopsSession'
    BY <2>2 DEF SafetyInv, PauseStopsSession
  <2> QED
    BY <1>1, <2>4, <2>5
    DEF SafetyInv, OneSession, HoldsProfile, ActiveAccount, UserFrame
\* No other request starts a campaign.
<1>2. ASSUME UserFrame, UNCHANGED <<account, profileLock, userBrowser, late>>,
             \A c \in Campaigns : campaign'[c].status = "active"
                                     => campaign[c].status = "active"
      PROVE  SafetyInv'
  BY <1>2 DEF SafetyInv, OneSession, HoldsProfile, ActiveAccount, LateCounts,
              PauseStopsSession, UserFrame
<1>3. ASSUME NEW c \in Campaigns, StartCampaign(c) \/ RestartCampaign(c)
      PROVE  SafetyInv'
  <2>1. Activate(c) /\ UNCHANGED <<account, profileLock, userBrowser>>
    BY <1>3 DEF StartCampaign, RestartCampaign
  <2> QED
    BY <1>0, <1>1, <2>1
<1>4. ASSUME NEW c \in Campaigns, PauseCampaign(c) PROVE SafetyInv'
  <2>1. \A d \in Campaigns : campaign'[d].status = "active"
                                => campaign[d].status = "active"
    BY <1>0, <1>4 DEF PauseCampaign, TypeOK, Campaign
  <2> QED
    BY <1>0, <1>2, <1>4, <2>1 DEF PauseCampaign
<1>5. ASSUME NEW c \in Campaigns, DeleteCampaign(c) PROVE SafetyInv'
  <2>1. \A d \in Campaigns : campaign'[d].status = "active"
                                => campaign[d].status = "active"
    BY <1>0, <1>5 DEF DeleteCampaign, TypeOK
  <2> QED
    BY <1>0, <1>2, <1>5, <2>1 DEF DeleteCampaign
<1>6. ASSUME NEW c \in Campaigns, NEW n \in Steps, DeleteStep(c, n)
      PROVE  SafetyInv'
  <2>1. \A d \in Campaigns : campaign'[d].status = "active"
                                => campaign[d].status = "active"
    BY <1>0, <1>6 DEF DeleteStep, TypeOK, Campaign
  <2> QED
    BY <1>0, <1>2, <1>6, <2>1 DEF DeleteStep
<1>7. ASSUME NEW l \in Leads,
             \/ AddLead(l)
             \/ \E st \in PatchStatuses \cup {lead[l].status},
                   n \in PatchSteps \cup {lead[l].step} : PatchLead(l, st, n)
      PROVE  SafetyInv'
  <2>1. UNCHANGED <<account, campaign, profileLock, userBrowser, late>>
    BY <1>7 DEF AddLead, PatchLead
  <2> QED
    BY <1>0, <1>2, <2>1
<1>8. CASE Reconnect
  BY <1>0, <1>8
  DEF Reconnect, SafetyInv, OneSession, HoldsProfile, ActiveAccount, LateCounts,
      PauseStopsSession, UserFrame
<1>9. CASE UserOpens
  <2>1. /\ profileLock = Nobody /\ profileLock' = User
        /\ UNCHANGED <<account, campaign, late>>
    BY <1>9 DEF UserOpens, dbVars
  <2>2. \A w \in Workers : worker[w].pc \notin Open
    BY <2>1, ConstantsAssumption DEF SafetyInv, HoldsProfile
  <2> QED
    BY <1>0, <2>1, <2>2
    DEF SafetyInv, OneSession, HoldsProfile, ActiveAccount, LateCounts,
        PauseStopsSession, UserFrame
<1> QED
  BY <1>3, <1>4, <1>5, <1>6, <1>7, <1>8, <1>9 DEF UserStep

\* Locks expire once their owner is gone, and only then.
LEMMA TimeSafety ==
    ASSUME SafetyInv, TypeOK', ~SlowSessions, TimeStep \/ UserCloses
    PROVE  SafetyInv'
<1> USE DEF SafetyInv, OneSession, HoldsProfile, ActiveAccount, LateCounts,
            PauseStopsSession
<1>1. CASE SessionLockExpires
  <2>1. /\ worker[sessionLock] = Idle /\ sessionLock # Nobody
        /\ UNCHANGED <<account, campaign, profileLock, worker, userBrowser, late>>
    BY <1>1 DEF SessionLockExpires, TimeFrame
  <2>2. \A w \in Workers : worker[w].pc = "idle"
    BY <2>1 DEF Idle
  <2> QED
    BY <2>1, <2>2 DEF Open, Working
<1>2. CASE ProfileLockExpires
  <2>1. /\ profileLock \in Workers /\ worker[profileLock].pc \notin Open
        /\ UNCHANGED <<account, campaign, sessionLock, worker, userBrowser, late>>
    BY <1>2 DEF ProfileLockExpires, TimeFrame, Browses, Open
  <2> QED
    BY <2>1, ConstantsAssumption
<1>3. CASE UserCloses
  <2>1. /\ userBrowser /\ ~userBrowser'
        /\ profileLock' = IF profileLock = User THEN Nobody ELSE profileLock
        /\ UNCHANGED <<account, campaign, sessionLock, worker, late>>
    BY <1>3 DEF UserCloses, dbVars, history
  <2>2. \A w \in Workers : worker[w].pc \notin Open
    BY <2>1, ConstantsAssumption
  <2> QED
    BY <2>1, <2>2
<1>4. CASE LeaseExpires \/ \E l \in Leads : TimePasses(l)
  <2>1. UNCHANGED <<account, campaign, sessionLock, profileLock, worker,
                    userBrowser, late>>
    BY <1>4 DEF LeaseExpires, TimePasses, TimeFrame
  <2> QED
    BY <2>1, IdleStep
<1> QED
  BY <1>1, <1>2, <1>3, <1>4 DEF TimeStep

LEMMA NextSafety ==
    ASSUME ~SlowSessions
    PROVE  SafetyInv /\ [Next]_vars => SafetyInv'
<1> SUFFICES ASSUME SafetyInv, [Next]_vars PROVE SafetyInv'
  OBVIOUS
<1>1. TypeOK'
  BY NextTypes DEF SafetyInv
<1>2. CASE UNCHANGED vars
  BY <1>1, <1>2, IdleStep DEF vars, dbVars, redisVars, history
<1>3. ASSUME BeatFinds \/ BeatStep PROVE SafetyInv'
  <2>1. BeatFrame
    BY <1>3 DEF BeatFinds, BeatStep, BeatSends, BeatGivesUp
  <2> QED
    BY <1>1, <2>1, IdleStep DEF BeatFrame, dbVars, history
<1>4. ASSUME NEW w \in Workers, SessionStep(w) PROVE SafetyInv'
  BY <1>1, <1>4, OuterSafety, LoopSafety DEF SessionStep, OuterStep
<1> QED
  BY <1>1, <1>2, <1>3, <1>4, UserSafety, TimeSafety, TakeSafety, CrashSafety
  DEF Next

\* While sessions end before their locks expire, one browser at most has the
\* profile open: session_lock and profile_lock keep sessions and interactive
\* logins apart through every crash, redelivery and edit.
THEOREM ProfileCorrect ==
    ASSUME ~SlowSessions
    PROVE  Spec => []ProfileExclusive
<1>1. SafetyInv => ProfileExclusive
  BY ConstantsAssumption
  DEF SafetyInv, HoldsProfile, ProfileExclusive, Browses, Open
<1>2. SafetyInv /\ [Next]_vars => SafetyInv'
  BY NextSafety
<1> QED
  BY <1>1, <1>2, InitSafety, PTL DEF Spec

\* Under the same assumption a campaign that was paused or deleted sees one
\* more action at most, however many leads the session still holds.
THEOREM PauseCorrect ==
    ASSUME ~SlowSessions
    PROVE  Spec => []PauseStopsSession
<1>1. SafetyInv => PauseStopsSession
  BY DEF SafetyInv
<1>2. SafetyInv /\ [Next]_vars => SafetyInv'
  BY NextSafety
<1> QED
  BY <1>1, <1>2, InitSafety, PTL DEF Spec

\* Under the same assumption nothing acts for a suspended account.
THEOREM SuspendedCorrect ==
    ASSUME ~SlowSessions
    PROVE  Spec => []SuspendedActsNoMore
<1>1. SafetyInv => SuspendedActsNoMore
  BY DEF SafetyInv, ActiveAccount, Working, SuspendedActsNoMore
<1>2. SafetyInv /\ [Next]_vars => SafetyInv'
  BY NextSafety
<1> QED
  BY <1>1, <1>2, InitSafety, PTL DEF Spec

-----------------------------------------------------------------------------
(* The leads a session holds: those of its snapshot that it has not come to *)
(* yet.  It acts on one of them at a time, and gives each up with its       *)
(* result.                                                                  *)

Loaded ==
    \A w \in Workers :
        /\ worker[w].cur \subseteq worker[w].todo
        /\ worker[w].pc = "idle" => worker[w].todo = {}
        /\ worker[w].pc \notin {"acting", "recording"} => worker[w].cur = {}
        /\ \A k, l \in worker[w].cur : k = l

\* What a step may do to a worker that acts on nothing new.
Holds(v) ==
    /\ worker'[v].todo \subseteq worker[v].todo
    /\ \A k \in worker'[v].todo : worker'[v].seen[k] = worker[v].seen[k]
    /\ worker'[v].pc = "idle" => worker'[v].todo = {}
Rests(v) == Holds(v) /\ worker'[v].cur = {}
OthersStay(w) == \A v \in Workers \ {w} : worker'[v] = worker[v]

\* What a step does to one lead, and to nothing else of the tables.
RowOnly(l) == /\ UNCHANGED <<campaign, resets>>
              /\ lead' \in [Leads -> Lead]
              /\ \A k \in Leads \ {l} : lead'[k] = lead[k]
Fails(l, n) ==
    \A ty \in Types : lead'[l].failed[ty] =
        IF ty = StepType[n] THEN lead[l].failed[ty] + 1 ELSE lead[l].failed[ty]
SameRow(l) == /\ lead'[l].touched = lead[l].touched
              /\ lead'[l].failed = lead[l].failed

\* A session gives its leads up, and an action without recording it only by
\* a fault or when the campaign is gone.
Drops(v) ==
    /\ Rests(v)
    /\ \/ faults' = faults + 1
       \/ \A l \in worker[v].cur :
             StatusOf(l) = "deleted" /\ l \notin worker'[v].todo

\* The steps of a session, as far as its leads are concerned.
Quiet ==
    /\ UNCHANGED <<campaign, lead, resets, performed, passed, waited>>
    /\ faults' \in {faults, faults + 1}
    /\ \A v \in Workers : worker'[v] = worker[v] \/ Drops(v)

Loads(w) ==
    /\ UNCHANGED <<campaign, lead, faults, resets, performed, passed, waited>>
    /\ OthersStay(w)
    /\ worker[w].pc = "locked"
    /\ worker'[w].pc = "opening" /\ worker'[w].cur = {}
    /\ worker'[w].todo \subseteq Leads
    /\ \A l \in worker'[w].todo :
          /\ lead[l].status \in Workable /\ StatusOf(l) = "active"
          /\ worker'[w].seen[l].step = lead[l].step
          /\ lead[l].due = "now" \/ (lead[l].step = 0 /\ lead[l].due = "none")

\* The move to step 1 of a lead that has none, or none.
Starts(w, l) ==
    \/ lead'[l].step = lead[l].step
    \/ /\ Seen(w, l).step = 0 /\ lead[l].status # "absent"
       /\ lead'[l].step = 1

Begins(w, l) ==
    /\ RowOnly(l) /\ OthersStay(w) /\ Starts(w, l) /\ SameRow(l)
    /\ lead'[l].status = lead[l].status /\ lead'[l].due = lead[l].due
    /\ UNCHANGED <<faults, performed, passed, waited>>
    /\ StatusOf(l) = "active"
    /\ l \in worker[w].todo /\ worker[w].cur = {}
    /\ worker'[w].todo = worker[w].todo /\ worker'[w].seen = worker[w].seen
    /\ worker'[w].cur = {l} /\ worker'[w].pc = "acting"

Acts(w, l) ==
    /\ RowOnly(l) /\ lead' = lead /\ OthersStay(w)
    /\ UNCHANGED <<passed, waited>>
    /\ worker[w].pc = "acting" /\ l \in worker[w].cur
    /\ worker'[w].todo = worker[w].todo /\ worker'[w].seen = worker[w].seen
    /\ worker'[w].cur = worker[w].cur /\ worker'[w].pc = "recording"
    /\ faults' = IF worker'[w].result = "error" THEN faults + 1 ELSE faults
    /\ \/ performed' = performed
       \/ /\ worker'[w].result \in {"ok", "fail", "error"}
          /\ performed' = [performed EXCEPT ![l] = [performed[l] EXCEPT
                             ![StepOf(w, l)] = performed[l][StepOf(w, l)] + 1]]

\* The session is done with the lead.
Finishes(w, l) ==
    /\ RowOnly(l) /\ OthersStay(w) /\ Rests(w)
    /\ l \in worker[w].todo /\ l \notin worker'[w].todo
    /\ UNCHANGED <<faults, performed>>
Recorded(w, l, results) ==
    /\ Finishes(w, l)
    /\ l \in worker[w].cur /\ worker[w].pc = "recording"
    /\ worker[w].result \in results
    /\ StatusOf(l) # "deleted"
Unpassed == UNCHANGED <<passed, waited>>
PassesStep(l, n) ==
    /\ passed' = [passed EXCEPT ![l] = passed[l] \cup {n}]
    /\ waited' = [waited EXCEPT ![l] = FALSE]

\* To the next step, with the status it had or one it can go on from; or
\* complete.
GoesOn(w, l) ==
    LET n == StepOf(w, l) IN
    /\ PassesStep(l, n)
    /\ lead'[l].failed = lead[l].failed
    /\ \/ /\ n + 1 \in PlanOf(l)
          /\ lead'[l].step = n + 1 /\ lead'[l].due = DueAfter(n + 1)
          /\ lead'[l].status = lead[l].status \/ lead'[l].status \in Workable
       \/ /\ n + 1 \notin PlanOf(l)
          /\ Starts(w, l)
          /\ lead'[l].status = "complete" /\ lead'[l].due = "none"

PassesOver(w, l) ==
    /\ Finishes(w, l) /\ Unpassed /\ Starts(w, l) /\ SameRow(l)
    /\ lead'[l].status = lead[l].status
    /\ lead'[l].due \in {lead[l].due, "later"}
    /\ worker[w].cur = {}
Skips(w, l) ==
    /\ Finishes(w, l) /\ GoesOn(w, l) /\ StatusOf(l) = "active"
    /\ worker[w].cur = {} /\ lead'[l].touched = lead[l].touched
Succeeds(w, l) ==
    /\ Recorded(w, l, {"ok"}) /\ GoesOn(w, l) /\ lead'[l].touched
Retries(w, l) ==
    /\ Recorded(w, l, {"blank"}) /\ Unpassed
    /\ Fails(l, StepOf(w, l))
    /\ lead[l].failed[StepType[StepOf(w, l)]] + 1 < MaxPageLoadRetries
    /\ lead'[l].status = lead[l].status /\ lead'[l].step = lead[l].step
    /\ lead'[l].due = "later" /\ lead'[l].touched
Stops(w, l) ==
    /\ Recorded(w, l, {"fail", "blank"}) /\ Unpassed
    /\ Fails(l, StepOf(w, l))
    /\ lead'[l].status = "failed" /\ lead'[l].step = lead[l].step
    /\ lead'[l].due = "none" /\ lead'[l].touched
Suspends(w, l) ==
    /\ Recorded(w, l, {"stale"}) /\ Unpassed
    /\ Fails(l, StepOf(w, l))
    /\ lead'[l].status = "failed" /\ lead'[l].step = lead[l].step
    /\ lead'[l].due = lead[l].due /\ lead'[l].touched = lead[l].touched
Errs(w, l) ==
    /\ Recorded(w, l, {"error"}) /\ Unpassed
    /\ Fails(l, StepOf(w, l))
    /\ lead'[l].status = lead[l].status /\ lead'[l].step = lead[l].step
    /\ lead'[l].due = lead[l].due /\ lead'[l].touched = lead[l].touched

Handles(w, l) ==
    \/ Begins(w, l) \/ Acts(w, l) \/ PassesOver(w, l) \/ Skips(w, l)
    \/ Succeeds(w, l) \/ Retries(w, l) \/ Stops(w, l) \/ Suspends(w, l)
    \/ Errs(w, l)

-----------------------------------------------------------------------------
(* Every step has one of these shapes, or is a request or a delay's end.    *)

LEMMA GotoShape ==
    ASSUME TypeOK, NEW w \in Workers, NEW c \in Pc, Goto(w, c),
           worker[w].cur = {}, c # "idle"
    PROVE  OthersStay(w) /\ Rests(w)
<1>1. worker'[w] = [worker[w] EXCEPT !.pc = c] /\ OthersStay(w)
  BY DEF Goto, TypeOK, OthersStay
<1>2. worker[w] \in WorkerState
  BY DEF TypeOK
<1> QED
  BY <1>1, <1>2 DEF Rests, Holds, WorkerState

LEMMA LeaveShape ==
    ASSUME TypeOK, NEW w \in Workers, NEW r \in Result, Leave(w, r)
    PROVE  OthersStay(w) /\ Rests(w) /\ worker'[w].todo = {}
<1>1. /\ worker'[w] = [Idle EXCEPT !.pc = "closing",
                         !.token = worker[w].token, !.result = r]
      /\ OthersStay(w)
  BY DEF Leave, TypeOK, OthersStay
<1>2. Idle.todo = {} /\ Idle.cur = {}
  BY DEF Idle
<1>3. worker'[w].todo = {} /\ worker'[w].cur = {} /\ worker'[w].pc = "closing"
  BY <1>1, <1>2 DEF Idle
<1> QED
  BY <1>1, <1>3 DEF Rests, Holds

LEMMA NextLeadShape ==
    ASSUME TypeOK, NEW w \in Workers, NEW l \in Leads, NEW b \in BOOLEAN,
           NextLead(w, l, b)
    PROVE  OthersStay(w) /\ Rests(w) /\ l \notin worker'[w].todo
<1> DEFINE s == [worker[w].seen EXCEPT ![l] = Unseen]
<1>1. worker[w] \in WorkerState
  BY DEF TypeOK
<1>2. /\ worker'[w] = [worker[w] EXCEPT !.pc = "leads",
                         !.todo = worker[w].todo \ {l}, !.cur = {},
                         !.seen = s, !.result = "none", !.fresh = b]
      /\ OthersStay(w)
  BY <1>1 DEF NextLead, TypeOK, OthersStay, WorkerState
<1>3. \A k \in Leads \ {l} : s[k] = worker[w].seen[k]
  BY <1>1 DEF WorkerState
<1> HIDE DEF s
<1>4. /\ worker'[w].todo = worker[w].todo \ {l} /\ worker'[w].cur = {}
      /\ worker'[w].seen = s /\ worker'[w].pc = "leads"
  BY <1>1, <1>2 DEF WorkerState
<1>5. worker[w].todo \subseteq Leads
  BY <1>1, WorkerFields
<1> QED
  BY <1>2, <1>3, <1>4, <1>5 DEF Rests, Holds

\* A step of one worker that touches no table.
LEMMA QuietStepShape ==
    ASSUME TypeOK, NEW w \in Workers, OthersStay(w), Drops(w),
           UNCHANGED <<campaign, lead, resets, performed, passed, waited>>,
           faults' \in {faults, faults + 1}
    PROVE  Quiet
BY DEF Quiet, OthersStay

LEMMA OuterShape ==
    ASSUME TypeOK, Loaded, NEW w \in Workers, OuterStep(w)
    PROVE  Quiet \/ Loads(w)
<1> USE DEF TaskFrame, dbVars, history
<1>0. /\ "none" \in Result /\ "invalid" \in Result
      /\ "verifying" \in Pc /\ "releasing" \in Pc /\ "leads" \in Pc
  BY DEF Result, Pc
<1>1. CASE LoadDue(w)
  <2>1. /\ worker[w].pc = "locked" /\ worker[w].cur = {}
        /\ UNCHANGED <<campaign, lead, faults, resets, performed, passed, waited>>
    BY <1>1 DEF LoadDue, Loaded
  <2>2. CASE Goto(w, "releasing")
    BY <1>0, <2>1, <2>2, GotoShape, QuietStepShape DEF Drops
  <2>3. CASE ~Goto(w, "releasing")
    <3> DEFINE s == [l \in Leads |->
                       IF l \in Snapshot
                       THEN [status |-> lead[l].status, step |-> lead[l].step]
                       ELSE Unseen]
    <3>1. /\ worker'[w] = [worker[w] EXCEPT !.pc = "opening",
                             !.todo = Snapshot, !.seen = s]
          /\ OthersStay(w)
      BY <1>1, <2>3 DEF LoadDue, TypeOK, OthersStay
    <3>2. Snapshot \subseteq Leads
      BY DEF Snapshot, DueLeads
    <3>3. \A l \in Snapshot : s[l].step = lead[l].step
      BY <3>2
    <3> HIDE DEF s
    <3>4. worker[w] \in WorkerState
      BY DEF TypeOK
    <3>5. /\ worker'[w].pc = "opening" /\ worker'[w].cur = {}
          /\ worker'[w].todo = Snapshot /\ worker'[w].seen = s
      BY <2>1, <3>1, <3>4 DEF WorkerState
    <3>6. \A l \in Snapshot :
             /\ lead[l].status \in Workable /\ StatusOf(l) = "active"
             /\ lead[l].due = "now" \/ (lead[l].step = 0 /\ lead[l].due = "none")
      BY DEF Snapshot, DueLeads, IsDue
    <3> QED
      BY <2>1, <3>1, <3>2, <3>3, <3>5, <3>6 DEF Loads
  <2> QED
    BY <2>2, <2>3
<1>2. CASE OpenProfile(w) \/ ProfileBusy(w) \/ SessionValid(w) \/ CloseProfile(w)
  <2>1. /\ UNCHANGED <<campaign, lead, resets, performed, passed, waited, faults>>
        /\ worker[w].pc \in {"opening", "verifying", "closing"}
        /\ Goto(w, "verifying") \/ Goto(w, "releasing") \/ Goto(w, "leads")
    BY <1>2 DEF OpenProfile, ProfileBusy, SessionValid, CloseProfile
  <2>2. worker[w].cur = {}
    BY <2>1 DEF Loaded
  <2> QED
    BY <1>0, <2>1, <2>2, GotoShape, QuietStepShape DEF Drops
<1>3. CASE SessionInvalid(w) \/ LeadsDone(w)
  <2>1. /\ UNCHANGED <<campaign, lead, resets, performed, passed, waited>>
        /\ faults' \in {faults, faults + 1}
        /\ Leave(w, "none") \/ Leave(w, "invalid")
        /\ worker[w].cur = {}
    BY <1>3 DEF SessionInvalid, LeadsDone, Loaded
  <2> QED
    BY <1>0, <2>1, LeaveShape, QuietStepShape DEF Drops
<1>4. CASE EndSession(w)
  <2>1. /\ UNCHANGED <<campaign, lead, resets, performed, passed, waited, faults>>
        /\ worker' = [worker EXCEPT ![w] = Idle] /\ worker[w].cur = {}
    BY <1>4 DEF EndSession, Loaded
  <2>2. worker'[w].todo = {} /\ worker'[w].cur = {} /\ OthersStay(w)
    BY <2>1 DEF TypeOK, Idle, OthersStay
  <2>3. Drops(w)
    BY <2>1, <2>2 DEF Drops, Rests, Holds
  <2> QED
    BY <2>1, <2>2, <2>3, QuietStepShape
<1> QED
  BY <1>1, <1>2, <1>3, <1>4 DEF OuterStep

\* Beat, messages, crashes, locks and leases leave tables and leads alone.
LEMMA AroundShape ==
    ASSUME TypeOK,
           \/ BeatFinds \/ BeatStep \/ UserCloses
           \/ LeaseExpires \/ SessionLockExpires \/ ProfileLockExpires
           \/ \E w \in Workers : TakeMessage(w) \/ Crash(w)
           \/ UNCHANGED vars
    PROVE  Quiet
<1> USE DEF dbVars, history
<1>1. ASSUME \/ BeatFinds \/ BeatStep \/ UserCloses
             \/ LeaseExpires \/ SessionLockExpires \/ ProfileLockExpires
             \/ UNCHANGED vars
      PROVE  Quiet
  <2>1. UNCHANGED <<campaign, worker, resets, performed, passed, faults>>
    BY <1>1 DEF BeatFinds, BeatStep, BeatSends, BeatGivesUp, BeatFrame,
                UserCloses, LeaseExpires, SessionLockExpires,
                ProfileLockExpires, TimeFrame, vars
  <2>2. UNCHANGED <<lead, waited>>
    BY <1>1 DEF BeatFinds, BeatStep, BeatSends, BeatGivesUp, BeatFrame,
                UserCloses, LeaseExpires, SessionLockExpires,
                ProfileLockExpires, vars
  <2> QED
    BY <2>1, <2>2 DEF Quiet
<1>2. ASSUME NEW w \in Workers, Crash(w) PROVE Quiet
  <2>1. /\ UNCHANGED <<campaign, lead, resets, performed, passed, waited>>
        /\ faults' = faults + 1 /\ worker' = [worker EXCEPT ![w] = Idle]
    BY <1>2 DEF Crash
  <2>2. worker'[w].todo = {} /\ worker'[w].cur = {} /\ OthersStay(w)
    BY <2>1 DEF TypeOK, Idle, OthersStay
  <2>3. Drops(w)
    BY <2>1, <2>2 DEF Drops, Rests, Holds
  <2> QED
    BY <2>1, <2>2, <2>3, QuietStepShape
<1>3. ASSUME NEW w \in Workers, NEW t \in queue, TakeSession(w, t) PROVE Quiet
  <2>1. /\ UNCHANGED <<campaign, lead, resets, performed, passed, waited, faults>>
        /\ worker' = [worker EXCEPT ![w] = [Idle EXCEPT !.pc = "locked",
                                                        !.token = t]]
        /\ worker[w].cur = {}
    BY <1>3 DEF TakeSession, TaskFrame, Idle
  <2>2. worker'[w].todo = {} /\ worker'[w].cur = {} /\ OthersStay(w)
    BY <2>1 DEF TypeOK, Idle, OthersStay
  <2>3. Drops(w)
    BY <2>1, <2>2 DEF Drops, Rests, Holds
  <2> QED
    BY <2>1, <2>2, <2>3, QuietStepShape
<1>4. ASSUME NEW w \in Workers, NEW t \in queue, SkipSession(w, t) PROVE Quiet
  BY <1>4 DEF SkipSession, TaskFrame, Quiet
<1> QED
  BY <1>1, <1>2, <1>3, <1>4 DEF TakeMessage

\* What the loop's steps write into a row.
LEMMA BegunShape ==
    ASSUME TypeOK, NEW w \in Workers, NEW l \in Leads
    PROVE  LET row == Begun(w, l)[l] IN
           /\ row \in Lead
           /\ \A k \in Leads \ {l} : Begun(w, l)[k] = lead[k]
           /\ row.status = lead[l].status /\ row.due = lead[l].due
           /\ row.touched = lead[l].touched /\ row.failed = lead[l].failed
           /\ \/ row.step = lead[l].step
              \/ /\ Seen(w, l).step = 0 /\ lead[l].status # "absent"
                 /\ row.step = 1
<1>1. lead[l] \in Lead /\ lead \in [Leads -> Lead] /\ 1 \in 0..NumSteps
  BY ConstantsAssumption DEF TypeOK
<1>2. [lead[l] EXCEPT !.step = 1] \in Lead
  BY <1>1, SetStep DEF Due
<1> QED
  BY <1>1, <1>2 DEF Begun, Lead

LEMMA AdvanceShape ==
    ASSUME NEW l \in Leads, NEW row \in Lead, NEW n \in Steps,
           NEW s \in LeadStatus
    PROVE  LET next == Advance(row, l, n, s) IN
           /\ next.touched = row.touched /\ next.failed = row.failed
           /\ \/ /\ n + 1 \in PlanOf(l)
                 /\ next.step = n + 1 /\ next.due = DueAfter(n + 1)
                 /\ next.status = s
              \/ /\ n + 1 \notin PlanOf(l)
                 /\ next.step = row.step
                 /\ next.status = "complete" /\ next.due = "none"
BY DEF Advance, Lead

LEMMA JobEndsShape ==
    ASSUME NEW x \in Lead
    PROVE  /\ JobEnds(x) \in Lead
           /\ JobEnds(x).status = x.status /\ JobEnds(x).step = x.step
           /\ JobEnds(x).due = x.due /\ JobEnds(x).touched = x.touched
           /\ JobEnds(x).failed = x.failed
BY DEF JobEnds, Lead

LEMMA JobFailsShape ==
    ASSUME NEW x \in Lead, NEW n \in Steps
    PROVE  /\ JobFails(x, n) \in Lead
           /\ JobFails(x, n).status = x.status /\ JobFails(x, n).step = x.step
           /\ JobFails(x, n).due = x.due /\ JobFails(x, n).touched = x.touched
           /\ \A ty \in Types : JobFails(x, n).failed[ty] =
                IF ty = StepType[n] THEN x.failed[ty] + 1 ELSE x.failed[ty]
<1>1. x.failed \in [Types -> Nat] /\ StepType[n] \in Types
  BY LeadFields, ConstantsAssumption
<1>2. [x.failed EXCEPT ![StepType[n]] = x.failed[StepType[n]] + 1]
        \in [Types -> Nat]
  BY <1>1
<1> QED
  BY <1>1, <1>2 DEF JobFails, Lead

LEMMA SkipShape ==
    ASSUME TypeOK, Loaded, NEW w \in Workers, NEW l \in Leads, SkipLead(w, l)
    PROVE  PassesOver(w, l) \/ Skips(w, l)
<1> DEFINE n == StepOf(w, l)
           row == Begun(w, l)[l]
<1>1. n \in Steps /\ worker[w].fresh \in BOOLEAN
  BY StepOfTyped, WorkerFields DEF TypeOK
<1>2. /\ NextLead(w, l, worker[w].fresh) /\ LeadFrame
      /\ UNCHANGED <<faults, performed>>
      /\ StatusOf(l) = "active"
      /\ l \in worker[w].todo /\ worker[w].pc = "leads"
  BY DEF SkipLead, Ready, Turn, CampaignGoesOn
<1>3. \/ /\ lead' = [lead EXCEPT ![l] = [row EXCEPT !.due = "later"]]
         /\ UNCHANGED <<passed, waited>>
      \/ /\ lead' = [lead EXCEPT ![l] = Advance(row, l, n, row.status)]
         /\ Passes(l, n)
  BY DEF SkipLead
<1>4. OthersStay(w) /\ Rests(w) /\ l \notin worker'[w].todo /\ worker[w].cur = {}
  BY <1>1, <1>2, NextLeadShape DEF Loaded
<1>5. lead \in [Leads -> Lead] /\ lead' \in [Leads -> Lead]
  <2>1. TypeOK'
    BY SkipLeadTypes
  <2> QED
    BY <2>1 DEF TypeOK
<1>6. RowOnly(l)
  BY <1>2, <1>3, <1>5 DEF RowOnly, LeadFrame
<1>7. Finishes(w, l)
  BY <1>2, <1>4, <1>6 DEF Finishes
<1>8. /\ row \in Lead
      /\ row.status = lead[l].status /\ row.due = lead[l].due
      /\ row.touched = lead[l].touched /\ row.failed = lead[l].failed
      /\ \/ row.step = lead[l].step
         \/ /\ Seen(w, l).step = 0 /\ lead[l].status # "absent"
            /\ row.step = 1
  BY BegunShape
<1>9. n = StepOf(w, l)
  OBVIOUS
<1> HIDE DEF n, row
<1>10. CASE /\ lead' = [lead EXCEPT ![l] = [row EXCEPT !.due = "later"]]
            /\ UNCHANGED <<passed, waited>>
  <2>1. lead'[l] = [row EXCEPT !.due = "later"]
    BY <1>5, <1>10
  <2>2. /\ lead'[l].step = row.step /\ lead'[l].status = row.status
        /\ lead'[l].due = "later" /\ lead'[l].touched = row.touched
        /\ lead'[l].failed = row.failed
    BY <1>8, <2>1 DEF Lead
  <2>3. PassesOver(w, l)
    BY <1>4, <1>7, <1>8, <1>10, <2>2 DEF PassesOver, Unpassed, Starts, SameRow
  <2> QED
    BY <2>3
<1>11. CASE /\ lead' = [lead EXCEPT ![l] = Advance(row, l, n, row.status)]
            /\ Passes(l, n)
  <2>1. lead'[l] = Advance(row, l, n, row.status)
    BY <1>5, <1>11
  <2>2. row.status \in LeadStatus
    BY <1>8, LeadFields
  <2>3. /\ lead'[l].touched = row.touched /\ lead'[l].failed = row.failed
        /\ \/ /\ n + 1 \in PlanOf(l)
              /\ lead'[l].step = n + 1 /\ lead'[l].due = DueAfter(n + 1)
              /\ lead'[l].status = row.status
           \/ /\ n + 1 \notin PlanOf(l)
              /\ lead'[l].step = row.step
              /\ lead'[l].status = "complete" /\ lead'[l].due = "none"
    BY <1>1, <1>8, <2>1, <2>2, AdvanceShape
  <2>4. PassesStep(l, n)
    BY <1>11 DEF Passes, PassesStep, TypeOK
  <2>5. GoesOn(w, l)
    BY <1>8, <1>9, <2>3, <2>4 DEF GoesOn, Starts
  <2>6. Skips(w, l)
    BY <1>2, <1>4, <1>7, <1>8, <2>3, <2>5 DEF Skips
  <2> QED
    BY <2>6
<1> QED
  BY <1>3, <1>10, <1>11

LEMMA BeginShape ==
    ASSUME TypeOK, Loaded, NEW w \in Workers, NEW l \in Leads, BeginAction(w, l)
    PROVE  Begins(w, l)
<1> DEFINE f == Begun(w, l)
<1>1. f \in [Leads -> Lead]
  BY BegunTyped
<1>2. /\ lead' = [f EXCEPT ![l].running = f[l].running + 1]
      /\ worker' = [worker EXCEPT ![w].pc = "acting", ![w].cur = {l}]
      /\ LeadFrame /\ UNCHANGED <<faults, history>>
      /\ StatusOf(l) = "active"
      /\ l \in worker[w].todo /\ worker[w].cur = {}
  BY <1>1 DEF BeginAction, Ready, Turn, CampaignGoesOn, Loaded
<1>3. /\ \A k \in Leads \ {l} : f[k] = lead[k]
      /\ f[l].status = lead[l].status /\ f[l].due = lead[l].due
      /\ f[l].touched = lead[l].touched /\ f[l].failed = lead[l].failed
      /\ \/ f[l].step = lead[l].step
         \/ /\ Seen(w, l).step = 0 /\ lead[l].status # "absent"
            /\ f[l].step = 1
  BY BegunShape
<1> HIDE DEF f
<1>4. /\ \A k \in Leads \ {l} : lead'[k] = lead[k]
      /\ lead'[l].status = lead[l].status /\ lead'[l].due = lead[l].due
      /\ lead'[l].step = f[l].step
      /\ lead'[l].touched = lead[l].touched /\ lead'[l].failed = lead[l].failed
  BY <1>1, <1>2, <1>3 DEF Lead
<1>5. TypeOK'
  BY BeginTypes
<1>6. worker[w] \in WorkerState /\ worker \in [Workers -> WorkerState]
  BY DEF TypeOK
<1>7. /\ worker'[w].todo = worker[w].todo /\ worker'[w].seen = worker[w].seen
      /\ worker'[w].cur = {l} /\ worker'[w].pc = "acting"
      /\ OthersStay(w)
  BY <1>2, <1>6 DEF WorkerState, OthersStay
<1>8. RowOnly(l)
  BY <1>2, <1>4, <1>5 DEF RowOnly, LeadFrame, TypeOK
<1> QED
  BY <1>2, <1>3, <1>4, <1>7, <1>8 DEF Begins, Starts, SameRow, history

LEMMA ActShape ==
    ASSUME TypeOK, NEW w \in Workers, NEW l \in Leads,
           NEW result \in {"ok", "fail", "blank", "stale", "error"},
           NEW landed \in BOOLEAN, Act(w, l, result, landed)
    PROVE  Acts(w, l)
<1> DEFINE n == StepOf(w, l)
<1>1. n \in Steps
  BY StepOfTyped
<1>2. worker[w] \in WorkerState /\ worker \in [Workers -> WorkerState]
  BY DEF TypeOK
<1>3. /\ worker' = [worker EXCEPT ![w].pc = "recording", ![w].result = result]
      /\ LeadFrame /\ UNCHANGED <<lead, passed, waited>>
      /\ worker[w].pc = "acting" /\ l \in worker[w].cur
      /\ landed => result \notin {"blank", "stale"}
      /\ faults' = IF result = "error" THEN faults + 1 ELSE faults
  BY DEF Act
<1>4. /\ worker'[w].todo = worker[w].todo /\ worker'[w].seen = worker[w].seen
      /\ worker'[w].cur = worker[w].cur /\ worker'[w].pc = "recording"
      /\ worker'[w].result = result /\ OthersStay(w)
  BY <1>2, <1>3 DEF WorkerState, OthersStay
<1>5. \/ performed' = performed
      \/ /\ landed
         /\ performed' = [performed EXCEPT ![l] = [performed[l] EXCEPT
                            ![n] = performed[l][n] + 1]]
  BY <1>1 DEF Act, TypeOK
<1>6. RowOnly(l)
  BY <1>3 DEF RowOnly, LeadFrame, TypeOK
<1> HIDE DEF n
<1>7. \/ performed' = performed
      \/ /\ worker'[w].result \in {"ok", "fail", "error"}
         /\ performed' = [performed EXCEPT ![l] = [performed[l] EXCEPT
                             ![n] = performed[l][n] + 1]]
  BY <1>3, <1>4, <1>5
<1> QED
  BY <1>3, <1>4, <1>6, <1>7 DEF Acts, n

LEMMA RecordShape ==
    ASSUME TypeOK, Loaded, NEW w \in Workers, NEW l \in Leads,
           \/ RecordSuccess(w, l) \/ RecordRetry(w, l) \/ RecordFailure(w, l)
           \/ RecordStale(w, l) \/ RecordError(w, l)
    PROVE  Handles(w, l)
<1> DEFINE n == StepOf(w, l)
           st == Seen(w, l).status
           s == Written(l, st, StatusAfter(n, st))
           failed == JobFails(JobEnds(lead[l]), n)
<1>1. /\ n \in Steps /\ lead[l] \in Lead /\ worker[w].fresh \in BOOLEAN
      /\ lead \in [Leads -> Lead] /\ TypeOK'
  BY StepOfTyped, WorkerFields, RecordTypes DEF TypeOK
<1>2. /\ RowOnly(l) /\ worker[w].pc = "recording" /\ l \in worker[w].cur
      /\ l \in worker[w].todo /\ UNCHANGED <<faults, performed>>
      /\ StatusOf(l) # "deleted"
  <2>1. /\ \E r \in {"ok", "blank", "fail", "stale", "error"} : Records(w, l, r)
        /\ \A k \in Leads \ {l} : lead'[k] = lead[k]
    BY <1>1 DEF RecordSuccess, RecordRetry, RecordFailure, RecordStale, RecordError
  <2>2. UNCHANGED <<campaign, resets>>
    BY <2>1 DEF Records, LeadFrame
  <2>3. worker[w].cur \subseteq worker[w].todo
    BY DEF Loaded
  <2> QED
    BY <1>1, <2>1, <2>2, <2>3 DEF Records, RowOnly, TypeOK
<1>3. /\ failed \in Lead
      /\ failed.status = lead[l].status /\ failed.step = lead[l].step
      /\ failed.due = lead[l].due /\ failed.touched = lead[l].touched
      /\ \A ty \in Types : failed.failed[ty] =
           IF ty = StepType[n] THEN lead[l].failed[ty] + 1 ELSE lead[l].failed[ty]
  BY <1>1, JobEndsShape, JobFailsShape
\* How the session leaves the lead.
<1>4. ASSUME NEW b \in BOOLEAN, NextLead(w, l, b) PROVE Finishes(w, l)
  <2>1. OthersStay(w) /\ Rests(w) /\ l \notin worker'[w].todo
    BY <1>4, NextLeadShape
  <2> QED
    BY <1>2, <2>1 DEF Finishes
<1>5. CASE RecordSuccess(w, l)
  <2>1. /\ worker[w].result = "ok" /\ Passes(l, n)
        /\ lead'[l] = Moved(w, l, n)
        /\ NextLead(w, l, worker[w].fresh)
    BY <1>1, <1>5 DEF RecordSuccess, Records
  <2>2. st \in LeadStatus /\ StepType[n] \in Types
    BY <1>1, SeenTyped, ConstantsAssumption DEF SeenRow
  <2>3. StatusAfter(n, st) \in Workable \cup {st}
    BY <2>2 DEF StatusAfter, Types, Workable
  <2>4. s \in LeadStatus /\ (s = lead[l].status \/ s \in Workable)
    BY <1>1, <2>3, LeadFields DEF Written, LeadStatus
  <2>5. Moved(w, l, n) =
          [JobEnds(Advance(lead[l], l, n, s)) EXCEPT !.touched = TRUE]
    BY DEF Moved
  <2> HIDE DEF s, st
  <2>6. Advance(lead[l], l, n, s) \in Lead
    BY <1>1, <2>4, AdvanceTyped
  <2> HIDE DEF n
  <2> DEFINE y == JobEnds(Advance(lead[l], l, n, s))
  <2>7. /\ y \in Lead /\ y.failed = lead[l].failed
        /\ \/ /\ n + 1 \in PlanOf(l)
              /\ y.step = n + 1 /\ y.due = DueAfter(n + 1) /\ y.status = s
           \/ /\ n + 1 \notin PlanOf(l)
              /\ y.step = lead[l].step
              /\ y.status = "complete" /\ y.due = "none"
    BY <1>1, <2>4, <2>6, AdvanceShape, JobEndsShape
  <2>8. lead'[l] = [y EXCEPT !.touched = TRUE]
    BY <2>1, <2>5
  <2> HIDE DEF y
  <2>9. /\ lead'[l].failed = y.failed /\ lead'[l].step = y.step
        /\ lead'[l].due = y.due /\ lead'[l].status = y.status
        /\ lead'[l].touched
    BY <2>7, <2>8 DEF Lead
  <2>10. PassesStep(l, n)
    BY <2>1 DEF Passes, PassesStep, TypeOK
  <2>11. GoesOn(w, l)
    BY <2>4, <2>7, <2>9, <2>10 DEF GoesOn, Starts, n
  <2> QED
    BY <1>1, <1>2, <1>4, <2>1, <2>9, <2>11 DEF Succeeds, Recorded, Handles
<1>6. CASE RecordRetry(w, l)
  <2>1. /\ worker[w].result = "blank" /\ Unpassed
        /\ lead'[l] = [failed EXCEPT !.due = "later", !.touched = TRUE]
        /\ NextLead(w, l, worker[w].fresh)
        /\ lead[l].failed[StepType[n]] + 1 < MaxPageLoadRetries
    BY <1>1, <1>6 DEF RecordRetry, Records, Unpassed, MayRetry
  <2> HIDE DEF failed
  <2>2. /\ lead'[l].failed = failed.failed /\ lead'[l].step = failed.step
        /\ lead'[l].status = failed.status /\ lead'[l].due = "later"
        /\ lead'[l].touched
    BY <1>3, <2>1 DEF Lead
  <2>3. Fails(l, n)
    BY <1>3, <2>2 DEF Fails
  <2> QED
    BY <1>1, <1>2, <1>3, <1>4, <2>1, <2>2, <2>3 DEF Retries, Recorded, Handles
<1>7. CASE RecordFailure(w, l)
  <2>1. /\ worker[w].result \in {"fail", "blank"} /\ Unpassed
        /\ lead'[l] = Stopped(w, l, n)
        /\ NextLead(w, l, worker[w].fresh)
    BY <1>1, <1>7 DEF RecordFailure, Records, Unpassed
  <2>2. lead'[l] = [failed EXCEPT !.status = "failed", !.due = "none",
                                  !.touched = TRUE]
    BY <2>1 DEF Stopped
  <2> HIDE DEF failed
  <2>3. /\ lead'[l].failed = failed.failed /\ lead'[l].step = failed.step
        /\ lead'[l].status = "failed" /\ lead'[l].due = "none"
        /\ lead'[l].touched
    BY <1>3, <2>2 DEF Lead
  <2>4. Fails(l, n)
    BY <1>3, <2>3 DEF Fails
  <2> QED
    BY <1>1, <1>2, <1>3, <1>4, <2>1, <2>3, <2>4 DEF Stops, Recorded, Handles
<1>8. CASE RecordStale(w, l)
  <2>1. /\ worker[w].result = "stale" /\ Unpassed
        /\ lead'[l] = [failed EXCEPT !.status = "failed"]
        /\ Leave(w, "stale") /\ "stale" \in Result
    BY <1>1, <1>8 DEF RecordStale, Records, Unpassed, AfterStale, Result
  <2> HIDE DEF failed
  <2>2. /\ lead'[l].failed = failed.failed /\ lead'[l].step = failed.step
        /\ lead'[l].status = "failed" /\ lead'[l].due = failed.due
        /\ lead'[l].touched = failed.touched
    BY <1>3, <2>1 DEF Lead
  <2>3. Fails(l, n)
    BY <1>3, <2>2 DEF Fails
  <2>4. Finishes(w, l)
    BY <1>2, <2>1, <1>1, LeaveShape DEF Finishes
  <2> QED
    BY <1>2, <1>3, <2>1, <2>2, <2>3, <2>4 DEF Suspends, Recorded, Handles
<1>9. CASE RecordError(w, l)
  <2>1. /\ worker[w].result = "error" /\ Unpassed
        /\ lead'[l] = JobFails(lead[l], n)
        /\ NextLead(w, l, TRUE)
    BY <1>1, <1>9 DEF RecordError, Records, Unpassed
  <2>2. /\ lead'[l].step = lead[l].step
        /\ lead'[l].status = lead[l].status /\ lead'[l].due = lead[l].due
        /\ lead'[l].touched = lead[l].touched /\ Fails(l, n)
    BY <1>1, <2>1, JobFailsShape DEF Fails
  <2> QED
    BY <1>2, <1>4, <2>1, <2>2 DEF Errs, Recorded, Handles
<1> QED
  BY <1>5, <1>6, <1>7, <1>8, <1>9

LEMMA LoopShape ==
    ASSUME TypeOK, Loaded, NEW w \in Workers, NEW l \in Leads, LeadStep(w, l)
    PROVE  Quiet \/ Handles(w, l)
<1>0. /\ "none" \in Result /\ worker[w].fresh \in BOOLEAN
      /\ lead \in [Leads -> Lead]
  BY WorkerFields DEF Result, TypeOK
<1>1. CASE RowsGone(w, l)
  <2>1. worker[w].cur = {}
    BY <1>1 DEF RowsGone, Turn, Loaded
  <2> QED
    BY <1>0, <1>1, <2>1, LeaveShape, QuietStepShape
    DEF RowsGone, LeadFrame, history, Drops
<1>2. CASE RecordNothing(w, l)
  <2>1. \A k \in worker[w].cur : StatusOf(k) = "deleted" /\ k = l
    BY <1>2 DEF RecordNothing, Loaded
  <2> QED
    BY <1>2, <2>1, NextLeadShape, QuietStepShape
    DEF RecordNothing, LeadFrame, history, Drops
<1>3. CASE SkipMismatch(w, l) \/ StopSession(w, l)
  <2>1. /\ l \in worker[w].todo /\ lead' = Begun(w, l)
        /\ UNCHANGED <<campaign, resets, faults, performed, passed, waited>>
        /\ NextLead(w, l, worker[w].fresh) \/ Leave(w, "none")
        /\ worker[w].cur = {}
    BY <1>3 DEF SkipMismatch, StopSession, Ready, Turn, LeadFrame, history,
                Loaded
  <2>2. OthersStay(w) /\ Rests(w) /\ l \notin worker'[w].todo
    BY <1>0, <2>1, NextLeadShape, LeaveShape
  <2>3. /\ \A k \in Leads \ {l} : lead'[k] = lead[k]
        /\ lead'[l].status = lead[l].status /\ lead'[l].due = lead[l].due
        /\ Starts(w, l) /\ SameRow(l)
    BY <2>1, BegunShape DEF Starts, SameRow
  <2>4. lead' \in [Leads -> Lead]
    BY <2>1, BegunTyped
  <2>5. Finishes(w, l)
    BY <2>1, <2>2, <2>3, <2>4 DEF Finishes, RowOnly
  <2> QED
    BY <2>1, <2>3, <2>5 DEF PassesOver, Unpassed, Handles
<1> QED
  BY <1>1, <1>2, <1>3, SkipShape, BeginShape, ActShape, RecordShape
  DEF LeadStep, Handles

LEMMA NextShape ==
    ASSUME TypeOK, Loaded, [Next]_vars
    PROVE  \/ Quiet
           \/ \E w \in Workers : Loads(w) \/ \E l \in Leads : Handles(w, l)
           \/ \E l \in Leads : TimePasses(l)
           \/ UserStep
<1>1. ASSUME NEW w \in Workers, SessionStep(w)
      PROVE  Quiet \/ Loads(w) \/ \E l \in Leads : Handles(w, l)
  BY <1>1, OuterShape, LoopShape DEF SessionStep, OuterStep
<1> QED
  BY <1>1, AroundShape DEF Next, TimeStep

LEMMA NextLoaded == TypeOK /\ Loaded /\ [Next]_vars => Loaded'
<1> SUFFICES ASSUME TypeOK, Loaded, [Next]_vars PROVE Loaded'
  OBVIOUS
<1>1. CASE Quiet
  BY <1>1 DEF Quiet, Drops, Rests, Holds, Loaded
<1>2. ASSUME NEW w \in Workers, Loads(w) PROVE Loaded'
  BY <1>2 DEF Loads, OthersStay, Loaded
<1>3. ASSUME NEW w \in Workers, NEW l \in Leads, Handles(w, l) PROVE Loaded'
  <2>1. OthersStay(w)
    BY <1>3 DEF Handles, Begins, Acts, PassesOver, Skips, Succeeds, Retries,
                Stops, Suspends, Errs, Recorded, Finishes
  <2>2. CASE Begins(w, l)
    BY <2>1, <2>2 DEF Begins, OthersStay, Loaded
  <2>3. CASE Acts(w, l)
    BY <2>1, <2>3 DEF Acts, OthersStay, Loaded
  <2>4. CASE Rests(w)
    BY <2>1, <2>4 DEF Rests, Holds, OthersStay, Loaded
  <2> QED
    BY <1>3, <2>2, <2>3, <2>4 DEF Handles, PassesOver, Skips, Succeeds, Retries,
                Stops, Suspends, Errs, Recorded, Finishes
<1>4. CASE UserStep \/ \E l \in Leads : TimePasses(l)
  <2>1. worker' = worker
    BY <1>4 DEF UserStep, TimePasses, TimeFrame
  <2> QED
    BY <2>1 DEF Loaded
<1> QED
  BY <1>1, <1>2, <1>3, <1>4, NextShape

\* While there is one session, no worker but its own holds a lead.
LEMMA OneHolder ==
    ASSUME SafetyInv, Loaded, NEW v \in Workers, NEW w \in Workers,
           worker[v].pc # "idle", v # w
    PROVE  worker[w].todo = {} /\ worker[w].cur = {}
BY DEF SafetyInv, OneSession, Loaded

LEMMA HandlerIsBusy ==
    ASSUME Loaded, NEW w \in Workers, NEW l \in Leads, Handles(w, l)
    PROVE  worker[w].pc # "idle" /\ l \in worker[w].todo
BY DEF Handles, Begins, Acts, PassesOver, Skips, Succeeds, Retries, Stops,
       Suspends, Errs, Recorded, Finishes, Loaded

-----------------------------------------------------------------------------
(* What requests do to rows.                                                *)

LEMMA StartRows ==
    ASSUME TypeOK, NEW c \in Campaigns, StartCampaign(c), NEW l \in Leads
    PROVE  \/ lead'[l] = lead[l]
           \/ /\ lead[l].status = "pending" /\ ~lead[l].touched
              /\ lead'[l].step = 1 /\ lead'[l].due = "now"
              /\ lead'[l].status = lead[l].status /\ SameRow(l)
<1>1. lead[l] \in Lead
  BY DEF TypeOK
<1> QED
  BY <1>1 DEF StartCampaign, Lead, SameRow

LEMMA RestartRows ==
    ASSUME TypeOK, NEW c \in Campaigns, RestartCampaign(c), NEW l \in Leads
    PROVE  /\ SameRow(l)
           /\ \/ /\ lead[l].status \in {"failed", "skipped"}
                 /\ lead'[l].status = "pending" /\ lead'[l].step = 1
                 /\ passed'[l] = {}
              \/ /\ lead'[l].status = lead[l].status
                 /\ lead'[l].step \in {lead[l].step, 1}
                 /\ passed'[l] = passed[l]
<1>1. lead[l] \in Lead
  BY DEF TypeOK
<1>2. /\ lead'[l] =
           CASE l \in Restarted(c) -> [lead[l] EXCEPT !.status = "pending",
                                                      !.step = 1, !.due = "now"]
             [] l \in Waiting(c)   -> [lead[l] EXCEPT !.step = 1, !.due = "now"]
             [] l \in OnTheWay(c)  -> [lead[l] EXCEPT !.due = "now"]
             [] OTHER              -> lead[l]
      /\ passed'[l] = IF l \in Restarted(c) THEN {} ELSE passed[l]
  BY DEF RestartCampaign
<1>3. CASE l \in Restarted(c)
  <2>1. lead'[l] = [lead[l] EXCEPT !.status = "pending", !.step = 1,
                                   !.due = "now"]
    BY <1>2, <1>3 DEF Restarted, Waiting, OnTheWay, Workable
  <2>2. /\ lead'[l].status = "pending" /\ lead'[l].step = 1 /\ SameRow(l)
    BY <1>1, <2>1 DEF Lead, SameRow
  <2>3. lead[l].status \in {"failed", "skipped"}
    BY <1>3 DEF Restarted
  <2> QED
    BY <1>2, <1>3, <2>2, <2>3
<1>4. CASE l \notin Restarted(c) /\ l \in Waiting(c)
  BY <1>1, <1>2, <1>4 DEF Waiting, OnTheWay, Lead, SameRow
<1>5. CASE l \notin Restarted(c) /\ l \notin Waiting(c) /\ l \in OnTheWay(c)
  BY <1>1, <1>2, <1>5 DEF Lead, SameRow
<1>6. CASE l \notin Restarted(c) /\ l \notin Waiting(c) /\ l \notin OnTheWay(c)
  BY <1>1, <1>2, <1>6 DEF Lead, SameRow
<1> QED
  BY <1>3, <1>4, <1>5, <1>6

LEMMA PatchRows ==
    ASSUME TypeOK, NEW l \in Leads, NEW st, NEW n, PatchLead(l, st, n)
    PROVE  /\ \A k \in Leads \ {l} : lead'[k] = lead[k]
           /\ lead'[l].status = st /\ lead'[l].step = n
           /\ lead'[l].due = lead[l].due /\ SameRow(l)
           /\ n # lead[l].step => 1..(n - 1) \subseteq passed'[l]
           /\ \A k \in Leads : passed[k] \subseteq passed'[k]
<1>1. lead[l] \in Lead /\ lead \in [Leads -> Lead]
  BY DEF TypeOK
<1>2. /\ n # lead[l].step => 1..(n - 1) \subseteq passed'[l]
      /\ \A k \in Leads : passed[k] \subseteq passed'[k]
  BY DEF PatchLead, TypeOK
<1> QED
  BY <1>1, <1>2 DEF PatchLead, Lead, SameRow

LEMMA TimeRows ==
    ASSUME TypeOK, NEW l \in Leads, TimePasses(l)
    PROVE  /\ \A k \in Leads \ {l} : lead'[k] = lead[k]
           /\ lead[l].due = "later" /\ lead'[l].due = "now"
           /\ lead'[l].status = lead[l].status /\ lead'[l].step = lead[l].step
           /\ SameRow(l) /\ waited' = [waited EXCEPT ![l] = TRUE]
<1>1. lead[l] \in Lead /\ lead \in [Leads -> Lead]
  BY DEF TypeOK
<1> QED
  BY <1>1 DEF TimePasses, Lead, SameRow

LEMMA NewRows ==
    /\ NoLead.status = "absent" /\ NoLead.step = 0 /\ NoLead.due = "none"
    /\ NewLead.status = "pending" /\ NewLead.step = 1 /\ NewLead.due = "now"
    /\ \A ty \in Types : NoLead.failed[ty] = 0 /\ NewLead.failed[ty] = 0
BY DEF NoLead, NewLead

-----------------------------------------------------------------------------
(* Steps in order.  A row, and the copy of it that a session holds, stands  *)
(* at a step whose predecessors have been done or skipped; a lead that a    *)
(* session holds has not failed, so that no restart takes its steps back.   *)

SessionInv == SafetyInv /\ Loaded

Before(n) == {m \in Steps : m < n}

InOrder ==
    /\ \A l \in Leads : Before(lead[l].step) \subseteq passed[l]
    /\ \A w \in Workers : \A l \in worker[w].todo :
          /\ Before(worker[w].seen[l].step) \subseteq passed[l]
          /\ lead[l].status \in Workable \cup {"absent"}

OrderInv == SessionInv /\ InOrder

LEMMA InitSession == Init => SessionInv
BY InitSafety DEF SessionInv, Loaded, Init, Idle

LEMMA NextSession == ~SlowSessions /\ SessionInv /\ [Next]_vars => SessionInv'
BY NextSafety, NextLoaded DEF SessionInv, SafetyInv

\* What a session holds and handles is well typed.
LEMMA HeldTypes ==
    ASSUME SessionInv, NEW w \in Workers, NEW l \in worker[w].todo
    PROVE  /\ l \in Leads /\ NumSteps \in Nat
           /\ lead[l].step \in 0..NumSteps
           /\ worker[w].seen[l].step \in 0..NumSteps
           /\ StepOf(w, l) \in Steps
           /\ StepOf(w, l) = FromOne(worker[w].seen[l].step)
<1>1. TypeOK /\ worker[w] \in WorkerState
  BY DEF SessionInv, SafetyInv, TypeOK
<1>2. l \in Leads
  BY <1>1, WorkerFields
<1>3. worker[w].seen[l] \in SeenRow /\ lead[l] \in Lead
  BY <1>1, <1>2, WorkerFields DEF TypeOK
<1> QED
  BY <1>1, <1>2, <1>3, StepOfTyped, LeadFields, ConstantsAssumption
  DEF SeenRow, StepOf

LEMMA OrderUser ==
    ASSUME OrderInv, TypeOK', UserStep, PatchStatuses \subseteq Workable
    PROVE  InOrder'
<1>0. /\ TypeOK /\ worker' = worker
      /\ \A l \in Leads : lead[l].step \in 0..NumSteps
      /\ \A w \in Workers : worker[w].todo \subseteq Leads
  BY LeadFields, WorkerFields
  DEF OrderInv, SessionInv, SafetyInv, UserStep, TypeOK
\* Rows that stay behind what was passed, and stay what a session may hold.
<1>1. ASSUME \A l \in Leads :
               /\ lead'[l].step \in {lead[l].step, 0, 1} /\ passed'[l] = passed[l]
               /\ lead[l].status \in Workable \cup {"absent"}
                    => lead'[l].status \in Workable \cup {"absent"}
      PROVE  InOrder'
  <2>1. Before(0) = {} /\ Before(1) = {}
    BY DEF Before, Steps
  <2>2. \A l \in Leads : Before(lead'[l].step) \subseteq passed'[l]
    BY <1>1, <2>1 DEF OrderInv, InOrder
  <2> QED
    BY <1>0, <1>1, <2>2 DEF OrderInv, InOrder, Before
<1>2. ASSUME NEW c \in Campaigns, StartCampaign(c) PROVE InOrder'
  <2>1. passed' = passed
    BY <1>2 DEF StartCampaign
  <2> QED
    BY <1>0, <1>1, <1>2, <2>1, StartRows
<1>3. ASSUME NEW c \in Campaigns, RestartCampaign(c) PROVE InOrder'
  <2>1. \A l \in Leads :
          \/ /\ lead[l].status \in {"failed", "skipped"}
             /\ lead'[l].status = "pending" /\ lead'[l].step = 1
             /\ passed'[l] = {}
          \/ /\ lead'[l].status = lead[l].status
             /\ lead'[l].step \in {lead[l].step, 1}
             /\ passed'[l] = passed[l]
    BY <1>0, <1>3, RestartRows
  <2>2. Before(1) = {}
    BY DEF Before, Steps
  <2>3. \A l \in Leads : Before(lead'[l].step) \subseteq passed'[l]
    BY <2>1, <2>2 DEF OrderInv, InOrder
  <2>4. \A w \in Workers : \A l \in worker[w].todo :
           passed'[l] = passed[l] /\ lead'[l].status = lead[l].status
    BY <1>0, <2>1 DEF OrderInv, InOrder, Workable
  <2> QED
    BY <1>0, <2>3, <2>4 DEF OrderInv, InOrder, Before
<1>4. ASSUME NEW c \in Campaigns, DeleteCampaign(c) PROVE InOrder'
  <2>1. passed' = passed /\ \A l \in Leads : lead'[l] = NoLead \/ lead'[l] = lead[l]
    BY <1>4 DEF DeleteCampaign
  <2> QED
    BY <1>1, <2>1, NewRows
<1>5. ASSUME NEW l \in Leads, AddLead(l) PROVE InOrder'
  <2>1. passed' = passed /\ \A k \in Leads : lead'[k] = NewLead \/ lead'[k] = lead[k]
    BY <1>0, <1>5 DEF AddLead, TypeOK
  <2> QED
    BY <1>1, <2>1, NewRows DEF Workable
<1>6. ASSUME NEW l \in Leads, NEW st \in PatchStatuses \cup {lead[l].status},
             NEW n \in PatchSteps \cup {lead[l].step}, PatchLead(l, st, n)
      PROVE  InOrder'
  <2>1. /\ \A k \in Leads \ {l} : lead'[k] = lead[k]
        /\ lead'[l].status = st /\ lead'[l].step = n
        /\ n # lead[l].step => 1..(n - 1) \subseteq passed'[l]
        /\ \A k \in Leads : passed[k] \subseteq passed'[k]
    BY <1>0, <1>6, PatchRows
  <2>2. n \in Nat
    BY <1>0, ConstantsAssumption
  <2>3. \A k \in Leads : Before(lead'[k].step) \subseteq passed'[k]
    BY <2>1, <2>2 DEF OrderInv, InOrder, Before, Steps
  <2>4. \A w \in Workers : \A k \in worker[w].todo :
          /\ Before(worker[w].seen[k].step) \subseteq passed'[k]
          /\ lead'[k].status \in Workable \cup {"absent"}
    BY <1>0, <2>1 DEF OrderInv, InOrder
  <2> QED
    BY <1>0, <2>3, <2>4 DEF InOrder, Before
<1>7. CASE UNCHANGED <<lead, passed>>
  BY <1>1, <1>7
<1> QED
  BY <1>2, <1>3, <1>4, <1>5, <1>6, <1>7
  DEF UserStep, PauseCampaign, DeleteStep, Reconnect, UserOpens, dbVars

LEMMA OrderHandles ==
    ASSUME OrderInv, TypeOK', Loaded', NEW w \in Workers, NEW l \in Leads,
           Handles(w, l)
    PROVE  InOrder'
<1> DEFINE n == StepOf(w, l)
<1>0. /\ SessionInv /\ TypeOK /\ Loaded
      /\ worker[w].pc # "idle" /\ l \in worker[w].todo
  BY HandlerIsBusy DEF OrderInv, SessionInv, SafetyInv
<1>1. /\ \A v \in Workers \ {w} : worker'[v] = worker[v] /\ worker[v].todo = {}
      /\ \A k \in worker'[w].todo : /\ k \in worker[w].todo
                                    /\ worker'[w].seen[k] = worker[w].seen[k]
  BY <1>0, OneHolder DEF SessionInv, Handles, Begins, Acts, PassesOver, Skips,
     Succeeds, Retries, Stops, Suspends, Errs, Recorded, Finishes, OthersStay,
     Rests, Holds
<1>2. \A k \in Leads \ {l} : lead'[k] = lead[k]
  BY DEF Handles, Begins, Acts, PassesOver, Skips, Succeeds, Retries, Stops,
         Suspends, Errs, Recorded, Finishes, RowOnly
<1>3. /\ n \in Steps /\ NumSteps \in Nat /\ worker[w].todo \subseteq Leads
      /\ lead[l].step \in 0..NumSteps
      /\ worker[w].seen[l].step \in 0..NumSteps
      /\ n = FromOne(worker[w].seen[l].step)
  BY <1>0, HeldTypes DEF SessionInv
<1>4. Before(n) \subseteq passed[l] /\ Before(n + 1) = Before(n) \cup {n}
  BY <1>0, <1>3 DEF OrderInv, InOrder, Before, Steps, FromOne
<1>5. Before(1) = {}
  BY DEF Before, Steps
\* The lead it handles, if it goes on holding it, is as it was.
<1>6. ASSUME passed' = passed, lead'[l].step \in {lead[l].step, 1},
             l \in worker'[w].todo => lead'[l].status = lead[l].status
      PROVE  InOrder'
  <2>1. \A k \in Leads : Before(lead'[k].step) \subseteq passed'[k]
    BY <1>2, <1>5, <1>6 DEF OrderInv, InOrder
  <2>2. \A v \in Workers : \A k \in worker'[v].todo :
          /\ Before(worker'[v].seen[k].step) \subseteq passed'[k]
          /\ lead'[k].status \in Workable \cup {"absent"}
    BY <1>1, <1>2, <1>3, <1>6 DEF OrderInv, InOrder
  <2> QED
    BY <2>1, <2>2 DEF InOrder, Before
<1>7. CASE Begins(w, l) \/ Acts(w, l) \/ PassesOver(w, l)
  BY <1>6, <1>7 DEF Begins, Acts, PassesOver, Unpassed, Starts, Finishes
<1>8. CASE Retries(w, l) \/ Stops(w, l) \/ Suspends(w, l) \/ Errs(w, l)
  BY <1>6, <1>8 DEF Retries, Stops, Suspends, Errs, Recorded, Finishes, Unpassed
<1>9. CASE Skips(w, l) \/ Succeeds(w, l)
  <2>1. GoesOn(w, l) /\ l \notin worker'[w].todo
    BY <1>9 DEF Skips, Succeeds, Recorded, Finishes
  <2>2. /\ passed'[l] = passed[l] \cup {n}
        /\ \A k \in Leads \ {l} : passed'[k] = passed[k]
    BY <1>0, <2>1 DEF GoesOn, PassesStep, TypeOK
  <2>3. lead'[l].step \in {n + 1, lead[l].step, 1}
    BY <2>1 DEF GoesOn, Starts
  <2>4. Before(lead'[l].step) \subseteq passed'[l]
    BY <1>4, <1>5, <2>2, <2>3 DEF OrderInv, InOrder
  <2>5. \A k \in Leads : Before(lead'[k].step) \subseteq passed'[k]
    BY <1>2, <2>2, <2>4 DEF OrderInv, InOrder
  <2>6. \A v \in Workers : \A k \in worker'[v].todo :
          /\ Before(worker'[v].seen[k].step) \subseteq passed'[k]
          /\ lead'[k].status \in Workable \cup {"absent"}
    BY <1>1, <1>2, <1>3, <2>1, <2>2 DEF OrderInv, InOrder
  <2> QED
    BY <2>5, <2>6 DEF InOrder, Before
<1> QED
  BY <1>7, <1>8, <1>9 DEF Handles

LEMMA NextOrder ==
    ASSUME ~SlowSessions, PatchStatuses \subseteq Workable
    PROVE  OrderInv /\ [Next]_vars => OrderInv'
<1> SUFFICES ASSUME OrderInv, [Next]_vars PROVE OrderInv'
  OBVIOUS
<1>0. /\ TypeOK /\ Loaded /\ TypeOK' /\ Loaded' /\ SessionInv'
  BY NextSession DEF OrderInv, SessionInv, SafetyInv
<1>2. ASSUME NEW w \in Workers, Loads(w) PROVE InOrder'
  BY <1>2 DEF Loads, OthersStay, OrderInv, InOrder, Before
<1>3. ASSUME NEW l \in Leads, TimePasses(l) PROVE InOrder'
  <2>1. passed' = passed /\ worker' = worker
    BY <1>3 DEF TimePasses, TimeFrame
  <2>2. \A k \in Leads : /\ lead'[k].status = lead[k].status
                         /\ lead'[k].step = lead[k].step
    BY <1>0, <1>3, TimeRows
  <2>3. \A w \in Workers : worker[w].todo \subseteq Leads
    BY <1>0, WorkerFields DEF TypeOK
  <2> QED
    BY <2>1, <2>2, <2>3 DEF OrderInv, InOrder, Before
<1>4. ASSUME Quiet PROVE InOrder'
  <2>1. passed' = passed /\ lead' = lead
    BY <1>4 DEF Quiet
  <2>2. \A w \in Workers : \A l \in worker'[w].todo :
           /\ l \in worker[w].todo
           /\ worker'[w].seen[l].step = worker[w].seen[l].step
    BY <1>4 DEF Quiet, Drops, Rests, Holds
  <2> QED
    BY <2>1, <2>2 DEF OrderInv, InOrder, Before
<1>5. InOrder'
  BY <1>0, <1>2, <1>3, <1>4, NextShape, OrderHandles, OrderUser
<1> QED
  BY <1>0, <1>5 DEF OrderInv

\* What a session holds stands where everything before it is behind the lead.
LEMMA HeldBehind ==
    ASSUME OrderInv, NEW w \in Workers, NEW l \in worker[w].todo
    PROVE  1..(StepOf(w, l) - 1) \subseteq passed[l]
<1>1. Before(worker[w].seen[l].step) \subseteq passed[l]
  BY DEF OrderInv, InOrder
<1>2. /\ NumSteps \in Nat /\ worker[w].seen[l].step \in 0..NumSteps
      /\ StepOf(w, l) = FromOne(worker[w].seen[l].step)
  BY HeldTypes DEF OrderInv
<1> QED
  BY <1>1, <1>2 DEF Before, Steps, FromOne

LEMMA InitOrder == Init => OrderInv
<1> SUFFICES ASSUME Init PROVE InOrder
  BY InitSession DEF OrderInv
<1>1. \A w \in Workers : worker[w].todo = {}
  BY DEF Init, Idle
<1>2. \A l \in Leads : lead[l].step \in {0, 1}
  BY NewRows DEF Init
<1> QED
  BY <1>1, <1>2 DEF InOrder, Before, Steps

\* While sessions end before their locks expire, and as long as nobody gives
\* a lead a final status by hand, a session acts on a step only after every
\* earlier one was done, skipped or passed over by hand since the lead's last
\* restart: through failures, rollbacks, crashes, restarts, deletions and
\* steps set under a session that holds the lead.
THEOREM OrderCorrect ==
    ASSUME ~SlowSessions, PatchStatuses \subseteq Workable
    PROVE  Spec => []StepsInOrder
<1>1. OrderInv => StepsInOrder
  BY HeldBehind DEF OrderInv, SessionInv, Loaded, StepsInOrder
<1>2. OrderInv /\ [Next]_vars => OrderInv'
  BY NextOrder
<1> QED
  BY <1>1, <1>2, InitOrder, PTL DEF Spec

-----------------------------------------------------------------------------
(* A complete lead.  Step lists keep all their steps until the campaign is  *)
(* deleted, so that the step without a successor is the last one.           *)

WholePlans == \A c \in Campaigns : campaign[c].plan \in {Steps, {}}

CompleteInv == OrderInv /\ WholePlans /\ CompleteMeansAllSteps

LEMMA NextWhole ==
    ASSUME TypeOK, Loaded, WholePlans, [Next]_vars, "deletestep" \notin UserOps
    PROVE  /\ WholePlans'
           /\ \A l \in Leads : PlanOf(l)' \in {PlanOf(l), {}}
<1>1. ASSUME campaign' = campaign
      PROVE  WholePlans' /\ \A l \in Leads : PlanOf(l)' \in {PlanOf(l), {}}
  BY <1>1 DEF WholePlans, PlanOf
<1>2. ASSUME \A c \in Campaigns : campaign'[c].plan \in {campaign[c].plan, {}}
      PROVE  WholePlans' /\ \A l \in Leads : PlanOf(l)' \in {PlanOf(l), {}}
  BY <1>2, ConstantsAssumption DEF WholePlans, PlanOf
<1>3. CASE UserStep
  <2>1. ASSUME NEW c \in Campaigns, Activate(c) \/ PauseCampaign(c)
        PROVE  \A d \in Campaigns : campaign'[d].plan = campaign[d].plan
    BY <2>1 DEF Activate, PauseCampaign, TypeOK, Campaign
  <2>2. ASSUME NEW c \in Campaigns, DeleteCampaign(c)
        PROVE  \A d \in Campaigns : campaign'[d].plan \in {campaign[d].plan, {}}
    BY <2>2 DEF DeleteCampaign, TypeOK
  <2> QED
    BY <1>1, <1>2, <1>3, <2>1, <2>2
    DEF UserStep, StartCampaign, RestartCampaign, DeleteStep, AddLead,
        PatchLead, Reconnect, UserOpens, dbVars
<1>4. CASE Quiet \/ \E l \in Leads : TimePasses(l)
  BY <1>1, <1>4 DEF Quiet, TimePasses, TimeFrame
<1>5. ASSUME NEW w \in Workers, Loads(w) \/ \E l \in Leads : Handles(w, l)
      PROVE  campaign' = campaign
  BY <1>5 DEF Loads, Handles, Begins, Acts, PassesOver, Skips, Succeeds,
     Retries, Stops, Suspends, Errs, Recorded, Finishes, RowOnly
<1> QED
  BY <1>1, <1>3, <1>4, <1>5, NextShape

LEMMA CompleteHandles ==
    ASSUME CompleteInv, NEW w \in Workers, NEW l \in Leads, Handles(w, l),
           \A k \in Leads : PlanOf(k)' \in {PlanOf(k), {}}
    PROVE  CompleteMeansAllSteps'
<1> DEFINE n == StepOf(w, l)
<1>0. /\ SessionInv /\ TypeOK /\ Loaded /\ l \in worker[w].todo
  BY HandlerIsBusy DEF CompleteInv, OrderInv, SessionInv, SafetyInv
<1>1. \A k \in Leads \ {l} : lead'[k] = lead[k]
  BY DEF Handles, Begins, Acts, PassesOver, Skips, Succeeds, Retries, Stops,
         Suspends, Errs, Recorded, Finishes, RowOnly
<1>2. CASE /\ passed' = passed
           /\ lead'[l].status \in {lead[l].status, "failed"}
  BY <1>1, <1>2 DEF CompleteInv, CompleteMeansAllSteps
<1>3. CASE GoesOn(w, l)
  <2>1. /\ passed'[l] = passed[l] \cup {n}
        /\ \A k \in Leads \ {l} : passed'[k] = passed[k]
    BY <1>0, <1>3 DEF GoesOn, PassesStep, TypeOK
  <2>2. /\ n \in Steps /\ NumSteps \in Nat
        /\ worker[w].seen[l].step \in 0..NumSteps
        /\ n = FromOne(worker[w].seen[l].step)
    BY <1>0, HeldTypes
  <2>3. Before(n) \subseteq passed[l]
    BY <1>0, <2>2 DEF CompleteInv, OrderInv, InOrder, Before, Steps, FromOne
  <2>4. PlanOf(l) \in {Steps, {}}
    BY ConstantsAssumption DEF CompleteInv, WholePlans, PlanOf
  <2>5. lead'[l].status = "complete" => PlanOf(l)' \subseteq passed'[l]
    <3>1. CASE n + 1 \notin PlanOf(l)
      BY <2>1, <2>2, <2>3, <2>4, <3>1 DEF Before, Steps
    <3>2. CASE n + 1 \in PlanOf(l)
      <4>1. lead[l].status # "complete"
        BY <1>0 DEF CompleteInv, OrderInv, InOrder, Workable
      <4> QED
        BY <1>3, <3>2, <4>1 DEF GoesOn, Workable
    <3> QED
      BY <3>1, <3>2
  <2> QED
    BY <1>1, <2>1, <2>5 DEF CompleteInv, CompleteMeansAllSteps
<1> QED
  BY <1>2, <1>3
  DEF Handles, Begins, Acts, PassesOver, Skips, Succeeds, Retries, Stops,
      Suspends, Errs, Recorded, Finishes, Unpassed

LEMMA CompleteUser ==
    ASSUME CompleteInv, UserStep, PatchStatuses \subseteq Workable,
           \A k \in Leads : PlanOf(k)' \in {PlanOf(k), {}}
    PROVE  CompleteMeansAllSteps'
<1>0. TypeOK
  BY DEF CompleteInv, OrderInv, SessionInv, SafetyInv
<1>1. ASSUME \A l \in Leads : lead'[l].status = "complete" =>
               lead[l].status = "complete" /\ passed[l] \subseteq passed'[l]
      PROVE  CompleteMeansAllSteps'
  BY <1>1 DEF CompleteInv, CompleteMeansAllSteps
<1>2. ASSUME NEW c \in Campaigns, StartCampaign(c)
      PROVE  CompleteMeansAllSteps'
  <2>1. passed' = passed
    BY <1>2 DEF StartCampaign
  <2> QED
    BY <1>0, <1>1, <1>2, <2>1, StartRows
<1>3. ASSUME NEW c \in Campaigns, RestartCampaign(c)
      PROVE  CompleteMeansAllSteps'
  BY <1>0, <1>1, <1>3, RestartRows
<1>4. ASSUME NEW c \in Campaigns, DeleteCampaign(c)
      PROVE  CompleteMeansAllSteps'
  BY <1>1, <1>4, NewRows DEF DeleteCampaign
<1>5. ASSUME NEW l \in Leads, AddLead(l) PROVE CompleteMeansAllSteps'
  <2>1. passed' = passed /\ \A k \in Leads : lead'[k] = NewLead \/ lead'[k] = lead[k]
    BY <1>0, <1>5 DEF AddLead, TypeOK
  <2> QED
    BY <1>1, <2>1, NewRows
<1>6. ASSUME NEW l \in Leads, NEW st \in PatchStatuses \cup {lead[l].status},
             NEW n \in PatchSteps \cup {lead[l].step}, PatchLead(l, st, n)
      PROVE  CompleteMeansAllSteps'
  <2>1. st = "complete" => lead[l].status = "complete"
    BY <1>6 DEF Workable
  <2>2. /\ \A k \in Leads \ {l} : lead'[k] = lead[k]
        /\ lead'[l].status = st
        /\ \A k \in Leads : passed[k] \subseteq passed'[k]
    BY <1>0, <1>6, PatchRows
  <2> QED
    BY <1>1, <2>1, <2>2
<1>7. CASE UNCHANGED <<lead, passed>>
  BY <1>1, <1>7
<1> QED
  BY <1>2, <1>3, <1>4, <1>5, <1>6, <1>7
  DEF UserStep, PauseCampaign, DeleteStep, Reconnect, UserOpens, dbVars

\* Under the same assumptions, and as long as no step is taken out of a
\* campaign under way, a lead that is marked complete has every step of its
\* campaign behind it.
THEOREM CompleteCorrect ==
    ASSUME ~SlowSessions, PatchStatuses \subseteq Workable,
           "deletestep" \notin UserOps
    PROVE  Spec => []CompleteMeansAllSteps
<1>1. Init => CompleteInv
  <2> SUFFICES ASSUME Init PROVE CompleteInv
    OBVIOUS
  <2>1. WholePlans
    BY DEF Init, WholePlans
  <2>2. \A l \in Leads : lead[l].status \in {"absent", "pending"}
    BY NewRows DEF Init
  <2>3. \A w \in Workers : worker[w].todo = {}
    BY DEF Init, Idle
  <2>4. \A l \in Leads : lead[l].step \in {0, 1}
    BY NewRows DEF Init
  <2>5. InOrder
    BY <2>3, <2>4 DEF InOrder, Before, Steps
  <2> QED
    BY <2>1, <2>2, <2>5, InitSession
    DEF CompleteInv, OrderInv, CompleteMeansAllSteps
<1>2. CompleteInv /\ [Next]_vars => CompleteInv'
  <2> SUFFICES ASSUME CompleteInv, [Next]_vars PROVE CompleteInv'
    OBVIOUS
  <2>1. OrderInv' /\ TypeOK /\ Loaded
    BY NextOrder DEF CompleteInv, OrderInv, SessionInv, SafetyInv
  <2>2. WholePlans' /\ \A l \in Leads : PlanOf(l)' \in {PlanOf(l), {}}
    BY <2>1, NextWhole DEF CompleteInv
  <2>3. ASSUME passed' = passed,
               \A l \in Leads : lead'[l].status = lead[l].status
        PROVE  CompleteMeansAllSteps'
    BY <2>2, <2>3 DEF CompleteInv, CompleteMeansAllSteps
  <2>4. ASSUME NEW w \in Workers, Loads(w) PROVE CompleteMeansAllSteps'
    BY <2>3, <2>4 DEF Loads
  <2>5. ASSUME NEW l \in Leads, TimePasses(l) PROVE CompleteMeansAllSteps'
    BY <2>1, <2>3, <2>5, TimeRows DEF TimePasses, TimeFrame
  <2>6. ASSUME Quiet PROVE CompleteMeansAllSteps'
    <3>1. passed' = passed /\ lead' = lead
      BY <2>6 DEF Quiet
    <3> QED
      BY <2>3, <3>1
  <2> QED
    BY <2>1, <2>2, <2>4, <2>5, <2>6, NextShape, CompleteHandles, CompleteUser
    DEF CompleteInv
<1>3. CompleteInv => CompleteMeansAllSteps
  BY DEF CompleteInv
<1> QED
  BY <1>1, <1>2, <1>3, PTL DEF Spec

-----------------------------------------------------------------------------
(* Failures.  A lead that a session may still act on has a failure to spare; *)
(* an exception, whose job is recorded with the lead left as it is, has       *)
(* raised the bound before.                                                   *)

Bound == MaxPageLoadRetries + resets + faults
Below(l, n) == \A ty \in Types : lead[l].failed[ty] < n

FailureCounts ==
    /\ \A l \in Leads :
          /\ Below(l, Bound + 1)
          /\ lead[l].status \in Workable => Below(l, Bound)
    /\ \A w \in Workers :
          /\ \A l \in worker[w].todo : Below(l, Bound)
          /\ worker[w].pc = "recording" /\ worker[w].result = "error" =>
                \A l \in worker[w].cur : Below(l, Bound - 1)

FailInv == SessionInv /\ FailureCounts

LEMMA BoundTyped ==
    ASSUME TypeOK
    PROVE  /\ MaxPageLoadRetries \in Nat /\ resets \in Nat /\ faults \in Nat
           /\ Bound \in Nat /\ Bound >= 1
           /\ \A l \in Leads, ty \in Types : lead[l].failed[ty] \in Nat
<1>1. \A l \in Leads, ty \in Types : lead[l].failed[ty] \in Nat
  BY LeadFields DEF TypeOK
<1>2. /\ MaxPageLoadRetries \in Nat /\ MaxPageLoadRetries >= 1
      /\ resets \in Nat /\ faults \in Nat
  BY ConstantsAssumption DEF TypeOK
<1> QED
  BY <1>1, <1>2 DEF Bound

\* A session goes on with its lead; an exception has raised the bound.
Carries(w) ==
    /\ worker'[w].todo = worker[w].todo
    /\ \/ worker'[w].pc = "acting"
       \/ worker'[w].result = "error" => Bound' >= Bound + 1

\* Steps that add to no count, lower no bound and give no session more leads.
LEMMA FailKeeps ==
    ASSUME FailInv, TypeOK', Loaded', Bound' >= Bound,
           \A w \in Workers : \/ worker'[w] = worker[w] \/ Rests(w)
                              \/ Carries(w),
           \A l \in Leads :
              \/ \A ty \in Types : lead'[l].failed[ty] = 0
              \/ /\ lead'[l].failed = lead[l].failed
                 /\ \/ lead'[l].status \in Workable => lead[l].status \in Workable
                    \/ Bound' >= Bound + 1
                    \/ Below(l, Bound)
    PROVE  FailureCounts'
<1>0. /\ TypeOK
      /\ Bound \in Nat /\ Bound >= 1 /\ Bound' \in Nat
      /\ \A l \in Leads, ty \in Types :
           lead[l].failed[ty] \in Nat /\ lead'[l].failed[ty] \in Nat
      /\ \A w \in Workers : worker[w].todo \subseteq Leads
  <2>1. TypeOK /\ \A w \in Workers : worker[w] \in WorkerState
    BY DEF FailInv, SessionInv, SafetyInv, TypeOK
  <2>2. Bound' \in Nat /\ \A l \in Leads, ty \in Types : lead'[l].failed[ty] \in Nat
    <3>1. /\ resets' \in Nat /\ faults' \in Nat /\ MaxPageLoadRetries \in Nat
          /\ \A l \in Leads : lead'[l] \in Lead
      BY ConstantsAssumption DEF TypeOK
    <3> QED
      BY <3>1, LeadFields DEF Bound
  <2> QED
    BY <2>1, <2>2, BoundTyped, WorkerFields
<1>1. ASSUME NEW l \in Leads
      PROVE  /\ Below(l, Bound + 1)'
             /\ lead'[l].status \in Workable => Below(l, Bound)'
             /\ Below(l, Bound) => Below(l, Bound)'
  BY <1>0 DEF FailInv, FailureCounts, Below
<1>2. ASSUME NEW w \in Workers
      PROVE  /\ \A l \in worker'[w].todo : Below(l, Bound)'
             /\ worker'[w].pc = "recording" /\ worker'[w].result = "error" =>
                   \A l \in worker'[w].cur : Below(l, Bound - 1)'
  <2>1. \A l \in worker'[w].todo : l \in worker[w].todo
    BY DEF Rests, Holds, Carries
  <2>2. \A l \in worker'[w].todo : Below(l, Bound)'
    BY <1>0, <1>1, <2>1 DEF FailInv, FailureCounts
  <2>3. CASE worker'[w] = worker[w]
    <3> SUFFICES ASSUME worker[w].pc = "recording", worker[w].result = "error",
                        NEW l \in worker[w].cur
                 PROVE  Below(l, Bound - 1)'
      BY <2>2, <2>3
    <3>1. l \in Leads /\ Below(l, Bound - 1)
      BY <1>0 DEF FailInv, FailureCounts, SessionInv, Loaded
    <3>2. \A ty \in Types : lead'[l].failed[ty] < Bound - 1
      BY <1>0, <3>1 DEF Below
    <3> QED
      BY <1>0, <3>1, <3>2 DEF Below
  <2>4. CASE Carries(w)
    <3> SUFFICES ASSUME worker'[w].pc = "recording", worker'[w].result = "error",
                        NEW l \in worker'[w].cur
                 PROVE  Below(l, Bound - 1)'
      BY <2>2
    <3>1. Bound' >= Bound + 1 /\ l \in worker[w].todo /\ l \in Leads
      BY <1>0, <2>4 DEF Carries, Loaded
    <3>2. Below(l, Bound)
      BY <3>1 DEF FailInv, FailureCounts
    <3>3. \A ty \in Types : lead'[l].failed[ty] < Bound
      BY <1>0, <3>1, <3>2 DEF Below
    <3> QED
      BY <1>0, <3>1, <3>3 DEF Below
  <2> QED
    BY <2>2, <2>3, <2>4 DEF Rests
<1> QED
  BY <1>1, <1>2 DEF FailureCounts

LEMMA FailUser ==
    ASSUME FailInv, TypeOK', Loaded', UserStep
    PROVE  FailureCounts'
<1>0. /\ TypeOK /\ worker' = worker /\ faults' = faults
      /\ resets \in Nat /\ resets' \in Nat /\ faults \in Nat
      /\ MaxPageLoadRetries \in Nat
  BY BoundTyped DEF FailInv, SessionInv, SafetyInv, UserStep, TypeOK
<1>1. ASSUME resets' = resets,
             \A l \in Leads :
                \/ \A ty \in Types : lead'[l].failed[ty] = 0
                \/ /\ lead'[l].failed = lead[l].failed
                   /\ lead'[l].status = lead[l].status
      PROVE  FailureCounts'
  <2>1. Bound' >= Bound
    BY <1>0, <1>1 DEF Bound
  <2> QED
    BY <1>0, <1>1, <2>1, FailKeeps
<1>2. ASSUME resets' = resets + 1,
             \A l \in Leads : lead'[l].failed = lead[l].failed
      PROVE  FailureCounts'
  <2>1. Bound' >= Bound /\ Bound' >= Bound + 1
    BY <1>0, <1>2 DEF Bound
  <2> QED
    BY <1>0, <1>2, <2>1, FailKeeps
<1>3. ASSUME NEW c \in Campaigns, StartCampaign(c) PROVE FailureCounts'
  <2>1. \A l \in Leads : /\ lead'[l].failed = lead[l].failed
                         /\ lead'[l].status = lead[l].status
    BY <1>0, <1>3, StartRows DEF SameRow
  <2> QED
    BY <1>1, <1>3, <2>1 DEF StartCampaign
<1>4. ASSUME NEW c \in Campaigns, RestartCampaign(c) PROVE FailureCounts'
  <2>1. \A l \in Leads : lead'[l].failed = lead[l].failed
    BY <1>0, <1>4, RestartRows DEF SameRow
  <2> QED
    BY <1>2, <1>4, <2>1 DEF RestartCampaign
<1>5. ASSUME NEW c \in Campaigns, DeleteCampaign(c) PROVE FailureCounts'
  <2>1. resets' = resets /\ \A l \in Leads : lead'[l] = NoLead \/ lead'[l] = lead[l]
    BY <1>5 DEF DeleteCampaign
  <2> QED
    BY <1>1, <2>1, NewRows
<1>6. ASSUME NEW l \in Leads, AddLead(l) PROVE FailureCounts'
  <2>1. resets' = resets /\ \A k \in Leads : lead'[k] = NewLead \/ lead'[k] = lead[k]
    BY <1>0, <1>6 DEF AddLead, TypeOK
  <2> QED
    BY <1>1, <2>1, NewRows
<1>7. ASSUME NEW l \in Leads, NEW st, NEW n, PatchLead(l, st, n)
      PROVE  FailureCounts'
  <2>1. \A k \in Leads : lead'[k].failed = lead[k].failed
    BY <1>0, <1>7, PatchRows DEF SameRow
  <2> QED
    BY <1>2, <1>7, <2>1 DEF PatchLead
<1>8. ASSUME UNCHANGED <<lead, resets>> PROVE FailureCounts'
  BY <1>1, <1>8
<1> QED
  BY <1>3, <1>4, <1>5, <1>6, <1>7, <1>8
  DEF UserStep, PauseCampaign, DeleteStep, Reconnect, UserOpens, dbVars

\* A recorded failure: the lead had one to spare, and keeps one if it stays
\* workable.
LEMMA FailRecorded ==
    ASSUME FailInv, TypeOK', NEW w \in Workers, NEW l \in Leads, NEW n \in Steps,
           Finishes(w, l), Fails(l, n),
           \/ lead'[l].status = "failed"
           \/ Below(l, Bound - 1)
           \/ lead[l].failed[StepType[n]] + 1 < MaxPageLoadRetries
    PROVE  FailureCounts'
<1>0. /\ TypeOK /\ StepType[n] \in Types
      /\ Bound \in Nat /\ Bound' = Bound /\ MaxPageLoadRetries <= Bound
      /\ \A k \in Leads, ty \in Types : lead[k].failed[ty] \in Nat
      /\ Below(l, Bound)
  <2>1. TypeOK /\ UNCHANGED <<resets, faults>> /\ l \in worker[w].todo
    BY DEF FailInv, SessionInv, SafetyInv, Finishes, RowOnly
  <2>2. Bound' = Bound /\ MaxPageLoadRetries <= Bound
    BY <2>1, BoundTyped DEF Bound
  <2> QED
    BY <2>1, <2>2, BoundTyped, ConstantsAssumption DEF FailInv, FailureCounts
<1>1. \A k \in Leads \ {l} : lead'[k] = lead[k]
  BY DEF Finishes, RowOnly
<1>2. /\ Below(l, Bound + 1)'
      /\ lead'[l].status \in Workable => Below(l, Bound)'
  <2>1. \A ty \in Types : lead'[l].failed[ty] <= lead[l].failed[ty] + 1
    BY <1>0 DEF Fails
  <2>2. \A ty \in Types : lead'[l].failed[ty] \in Nat
    BY <1>0 DEF Fails
  <2>3. Below(l, Bound + 1)'
    BY <1>0, <2>1, <2>2 DEF Below
  <2>4. CASE Below(l, Bound - 1)
    BY <1>0, <2>1, <2>2, <2>3, <2>4 DEF Below
  <2>5. CASE lead[l].failed[StepType[n]] + 1 < MaxPageLoadRetries
    <3>1. \A ty \in Types : lead'[l].failed[ty] < Bound
      <4> SUFFICES ASSUME NEW ty \in Types PROVE lead'[l].failed[ty] < Bound
        OBVIOUS
      <4>1. MaxPageLoadRetries \in Nat /\ lead[l].failed[ty] < Bound
        BY <1>0, ConstantsAssumption DEF Below
      <4> QED
        BY <1>0, <2>5, <4>1 DEF Fails
    <3> QED
      BY <1>0, <2>3, <3>1 DEF Below
  <2> QED
    BY <2>3, <2>4, <2>5 DEF Workable
<1>3. ASSUME NEW v \in Workers
      PROVE  /\ \A k \in worker'[v].todo : Below(k, Bound)'
             /\ worker'[v].pc = "recording" /\ worker'[v].result = "error" =>
                   \A k \in worker'[v].cur : Below(k, Bound - 1)'
  <2>1. CASE v = w
    <3>1. \A k \in worker'[w].todo : k \in worker[w].todo /\ k # l
      BY DEF Finishes, Rests, Holds
    <3>2. worker[w].todo \subseteq Leads
      BY <1>0, WorkerFields DEF TypeOK
    <3>3. \A k \in worker'[w].todo : Below(k, Bound)'
      BY <1>0, <1>1, <3>1, <3>2 DEF FailInv, FailureCounts, Below
    <3> QED
      BY <2>1, <3>3 DEF Finishes, Rests
  <2>2. CASE v # w
    <3>1. worker'[v].todo = {} /\ worker'[v].cur = {}
      <4>1. worker[w].pc # "idle" /\ worker'[v] = worker[v]
        BY <2>2 DEF FailInv, SessionInv, Loaded, Finishes, OthersStay
      <4> QED
        BY <2>2, <4>1, OneHolder DEF FailInv, SessionInv
    <3> QED
      BY <3>1
  <2> QED
    BY <2>1, <2>2
<1>4. ASSUME NEW k \in Leads
      PROVE  /\ Below(k, Bound + 1)'
             /\ lead'[k].status \in Workable => Below(k, Bound)'
  BY <1>0, <1>1, <1>2 DEF FailInv, FailureCounts, Below
<1> QED
  BY <1>3, <1>4 DEF FailureCounts

LEMMA FailHandles ==
    ASSUME FailInv, TypeOK', Loaded', NEW w \in Workers, NEW l \in Leads,
           Handles(w, l)
    PROVE  FailureCounts'
<1> DEFINE n == StepOf(w, l)
<1>0. /\ TypeOK /\ Loaded /\ SessionInv /\ n \in Steps
      /\ l \in worker[w].todo /\ worker[w].pc # "idle"
  BY HandlerIsBusy, StepOfTyped DEF FailInv, SessionInv, SafetyInv
<1>1. CASE Retries(w, l) \/ Stops(w, l) \/ Suspends(w, l)
  <2>1. Finishes(w, l) /\ Fails(l, n)
    BY <1>1 DEF Retries, Stops, Suspends, Recorded
  <2>2. \/ lead'[l].status = "failed"
        \/ lead[l].failed[StepType[n]] + 1 < MaxPageLoadRetries
    BY <1>1 DEF Retries, Stops, Suspends
  <2> HIDE DEF n
  <2> QED
    BY <1>0, <2>1, <2>2, FailRecorded
<1>2. CASE Errs(w, l)
  <2>1. Finishes(w, l) /\ Fails(l, n) /\ Below(l, Bound - 1)
    BY <1>2 DEF Errs, Recorded, FailInv, FailureCounts
  <2> HIDE DEF n
  <2> QED
    BY <1>0, <2>1, FailRecorded
\* The other steps add to no count.
<1>3. ASSUME ~(Retries(w, l) \/ Stops(w, l) \/ Suspends(w, l) \/ Errs(w, l))
      PROVE  FailureCounts'
  <2>1. /\ \A k \in Leads \ {l} : lead'[k] = lead[k]
        /\ lead'[l].failed = lead[l].failed /\ Below(l, Bound)
    BY <1>0, <1>3 DEF Handles, Begins, Acts, PassesOver, Skips, Succeeds,
       Recorded, Finishes, RowOnly, SameRow, GoesOn, FailInv, FailureCounts
  <2>2. /\ Bound' >= Bound
        /\ Acts(w, l) /\ worker'[w].result = "error" => Bound' >= Bound + 1
    <3>1. /\ resets' = resets
          /\ faults' = IF Acts(w, l) /\ worker'[w].result = "error"
                       THEN faults + 1 ELSE faults
      BY <1>3 DEF Handles, Begins, Acts, PassesOver, Skips, Succeeds, Recorded,
         Finishes, RowOnly
    <3> QED
      BY <1>0, <3>1, BoundTyped DEF Bound
  <2>3. \A v \in Workers : \/ worker'[v] = worker[v] \/ Rests(v)
                           \/ Carries(v)
    BY <1>3, <2>2 DEF Handles, Begins, Acts, PassesOver, Skips, Succeeds,
       Recorded, Finishes, OthersStay, Carries
  <2> QED
    BY <2>1, <2>2, <2>3, FailKeeps
<1> QED
  BY <1>1, <1>2, <1>3

LEMMA NextFail ==
    ASSUME ~SlowSessions
    PROVE  FailInv /\ [Next]_vars => FailInv'
<1> SUFFICES ASSUME FailInv, [Next]_vars PROVE FailInv'
  OBVIOUS
<1>0. /\ TypeOK /\ Loaded /\ TypeOK' /\ Loaded' /\ SessionInv'
  BY NextSession DEF FailInv, SessionInv, SafetyInv
<1>1. ASSUME NEW w \in Workers, Loads(w) PROVE FailureCounts'
  <2>1. UNCHANGED <<lead, resets, faults>> /\ Bound' = Bound
    BY <1>1 DEF Loads, Bound
  <2>2. \A l \in worker'[w].todo : l \in Leads /\ Below(l, Bound)
    BY <1>1 DEF Loads, FailInv, FailureCounts
  <2>3. worker'[w].pc = "opening" /\ \A v \in Workers \ {w} : worker'[v] = worker[v]
    BY <1>1 DEF Loads, OthersStay
  <2> QED
    BY <2>1, <2>2, <2>3 DEF FailInv, FailureCounts, Below
<1>2. ASSUME NEW l \in Leads, TimePasses(l) PROVE FailureCounts'
  <2>1. /\ worker' = worker /\ Bound' = Bound /\ Bound \in Nat
        /\ \A k \in Leads : /\ lead'[k].status = lead[k].status
                            /\ lead'[k].failed = lead[k].failed
    BY <1>0, <1>2, TimeRows, BoundTyped DEF TimePasses, TimeFrame, Bound, SameRow
  <2> QED
    BY <1>0, <2>1, FailKeeps
<1>3. ASSUME Quiet PROVE FailureCounts'
  <2>1. /\ lead' = lead /\ Bound' >= Bound
        /\ \A v \in Workers : worker'[v] = worker[v] \/ Rests(v)
    BY <1>0, <1>3, BoundTyped DEF Quiet, Drops, Bound
  <2>2. \A l \in Leads : /\ lead'[l].failed = lead[l].failed
                         /\ lead'[l].status = lead[l].status
    BY <2>1
  <2> QED
    BY <1>0, <2>1, <2>2, FailKeeps
<1>4. FailureCounts'
  BY <1>0, <1>1, <1>2, <1>3, NextShape, FailHandles, FailUser
<1> QED
  BY <1>0, <1>4 DEF FailInv

\* While sessions end before their locks expire, the actions of one type on a
\* lead fail MAX_PAGE_LOAD_RETRIES times at most, and once more for each
\* restart, edit by hand and fault: no overlap of requests, sessions, crashes
\* and rollbacks has a lead tried for ever.
THEOREM AttemptsCorrect ==
    ASSUME ~SlowSessions
    PROVE  Spec => []AttemptsBounded
<1>1. Init => FailInv
  <2> SUFFICES ASSUME Init PROVE FailureCounts
    BY InitSession DEF FailInv
  <2>1. TypeOK
    BY InitSession DEF SessionInv, SafetyInv
  <2>2. \A w \in Workers : worker[w].todo = {} /\ worker[w].cur = {}
    BY DEF Init, Idle
  <2>3. \A l \in Leads, ty \in Types : lead[l].failed[ty] = 0
    BY NewRows DEF Init
  <2> QED
    BY <2>1, <2>2, <2>3, BoundTyped DEF FailureCounts, Below
<1>2. FailInv /\ [Next]_vars => FailInv'
  BY NextFail
<1>3. FailInv => AttemptsBounded
  <2> SUFFICES ASSUME FailInv, NEW l \in Leads, NEW ty \in Types
               PROVE  lead[l].failed[ty] <= Bound
    BY DEF AttemptsBounded, Bound
  <2>1. Below(l, Bound + 1) /\ TypeOK
    BY DEF FailInv, FailureCounts, SessionInv, SafetyInv
  <2> QED
    BY <2>1, BoundTyped DEF Below
<1> QED
  BY <1>1, <1>2, <1>3, PTL DEF Spec

-----------------------------------------------------------------------------
(* Delays.  A lead that is due for a delayed step, or that a session holds  *)
(* for one, has waited since the step before.                               *)

Later == Delayed \ {1}

Waited ==
    /\ \A l \in Leads :
          lead[l].due = "now" /\ lead[l].step \in Later => waited[l]
    /\ \A w \in Workers : \A l \in worker[w].todo :
          StepOf(w, l) \in Later => waited[l]

DelayInv == SessionInv /\ Waited

\* Steps by which no lead becomes due for a later step, and no session gets
\* more leads.
LEMMA DelayKeeps ==
    ASSUME DelayInv,
           \A w \in Workers :
              /\ worker'[w].todo \subseteq worker[w].todo
              /\ \A l \in worker'[w].todo : worker'[w].seen[l] = worker[w].seen[l],
           \A l \in Leads :
              \/ lead'[l].due \in {"none", "later"}
              \/ lead'[l].step = 1
              \/ lead'[l].due = lead[l].due /\ lead'[l].step = lead[l].step,
           waited' = waited
    PROVE  Waited'
<1>1. \A w \in Workers, l \in Leads : l \in worker'[w].todo =>
         l \in worker[w].todo /\ StepOf(w, l)' = StepOf(w, l)
  BY DEF StepOf
<1>2. \A w \in Workers : worker[w].todo \subseteq Leads
  BY WorkerFields DEF DelayInv, SessionInv, SafetyInv, TypeOK
<1>3. \A w \in Workers : \A l \in worker'[w].todo :
         StepOf(w, l)' \in Later => waited'[l]
  BY <1>1, <1>2 DEF DelayInv, Waited
<1> QED
  BY <1>3 DEF DelayInv, Waited, Later

LEMMA DelayUser ==
    ASSUME DelayInv, UserStep, PatchSteps = {}, "restart" \notin UserOps
    PROVE  Waited'
<1>0. TypeOK /\ worker' = worker /\ waited' = waited
  BY DEF DelayInv, SessionInv, SafetyInv, UserStep
<1>1. ASSUME \A l \in Leads :
               \/ lead'[l].due = "none" \/ lead'[l].step = 1
               \/ lead'[l].due = lead[l].due /\ lead'[l].step = lead[l].step
      PROVE  Waited'
  BY <1>0, <1>1, DelayKeeps
<1>2. ASSUME NEW c \in Campaigns, StartCampaign(c) PROVE Waited'
  BY <1>0, <1>1, <1>2, StartRows
<1>3. ASSUME NEW c \in Campaigns, DeleteCampaign(c) PROVE Waited'
  <2>1. \A l \in Leads : lead'[l] = NoLead \/ lead'[l] = lead[l]
    BY <1>3 DEF DeleteCampaign
  <2> QED
    BY <1>1, <2>1, NewRows
<1>4. ASSUME NEW l \in Leads, AddLead(l) PROVE Waited'
  <2>1. \A k \in Leads : lead'[k] = NewLead \/ lead'[k] = lead[k]
    BY <1>0, <1>4 DEF AddLead, TypeOK
  <2> QED
    BY <1>1, <2>1, NewRows
<1>5. ASSUME NEW l \in Leads, NEW st, NEW n \in PatchSteps \cup {lead[l].step},
             PatchLead(l, st, n)
      PROVE  Waited'
  <2>1. /\ \A k \in Leads \ {l} : lead'[k] = lead[k]
        /\ lead'[l].step = lead[l].step /\ lead'[l].due = lead[l].due
    BY <1>0, <1>5, PatchRows
  <2> QED
    BY <1>1, <2>1
<1>6. ASSUME lead' = lead PROVE Waited'
  BY <1>1, <1>6
<1> QED
  BY <1>2, <1>3, <1>4, <1>5, <1>6
  DEF UserStep, RestartCampaign, PauseCampaign, DeleteStep, Reconnect,
      UserOpens, dbVars

LEMMA DelayHandles ==
    ASSUME DelayInv, NEW w \in Workers, NEW l \in Leads, Handles(w, l)
    PROVE  Waited'
<1>0. /\ SessionInv /\ TypeOK /\ Loaded
      /\ l \in worker[w].todo /\ worker[w].pc # "idle"
  BY HandlerIsBusy DEF DelayInv, SessionInv, SafetyInv
<1>1. /\ \A k \in Leads \ {l} : lead'[k] = lead[k]
      /\ \A v \in Workers :
           /\ worker'[v].todo \subseteq worker[v].todo
           /\ \A k \in worker'[v].todo : worker'[v].seen[k] = worker[v].seen[k]
  BY DEF Handles, Begins, Acts, PassesOver, Skips, Succeeds, Retries, Stops,
         Suspends, Errs, Recorded, Finishes, RowOnly, OthersStay, Rests, Holds
<1>2. CASE Skips(w, l) \/ Succeeds(w, l)
  <2>1. /\ GoesOn(w, l) /\ l \notin worker'[w].todo
        /\ \A v \in Workers \ {w} : worker[v].todo = {} /\ worker'[v].todo = {}
    BY <1>0, <1>1, <1>2, OneHolder
    DEF SessionInv, Skips, Succeeds, Recorded, Finishes
  <2>2. \A k \in Leads \ {l} : waited'[k] = waited[k]
    BY <1>0, <2>1 DEF GoesOn, PassesStep, TypeOK
  <2>3. lead'[l].due = "now" => lead'[l].step \notin Later
    BY <2>1 DEF GoesOn, DueAfter, Later
  <2>4. \A k \in worker'[w].todo : k \in Leads \ {l} /\ k \in worker[w].todo
                                   /\ StepOf(w, k)' = StepOf(w, k)
    BY <1>0, <1>1, <2>1, WorkerFields DEF StepOf, TypeOK
  <2>5. \A k \in Leads : lead'[k].due = "now" /\ lead'[k].step \in Later =>
           waited'[k]
    BY <1>1, <2>2, <2>3 DEF DelayInv, Waited
  <2>6. \A v \in Workers : \A k \in worker'[v].todo :
           StepOf(v, k)' \in Later => waited'[k]
    BY <2>1, <2>2, <2>4 DEF DelayInv, Waited
  <2> QED
    BY <2>5, <2>6 DEF Waited
<1>3. CASE ~(Skips(w, l) \/ Succeeds(w, l))
  <2>1. /\ waited' = waited
        /\ \/ lead'[l].due \in {"none", "later"}
           \/ lead'[l].step = 1
           \/ lead'[l].due = lead[l].due /\ lead'[l].step = lead[l].step
    BY <1>3 DEF Handles, Begins, Acts, PassesOver, Retries, Stops, Suspends,
       Errs, Unpassed, Starts
  <2>2. \A k \in Leads :
           \/ lead'[k].due \in {"none", "later"}
           \/ lead'[k].step = 1
           \/ lead'[k].due = lead[k].due /\ lead'[k].step = lead[k].step
    BY <1>1, <2>1
  <2> QED
    BY <1>1, <2>1, <2>2, DelayKeeps
<1> QED
  BY <1>2, <1>3

LEMMA NextDelay ==
    ASSUME ~SlowSessions, PatchSteps = {}, "restart" \notin UserOps
    PROVE  DelayInv /\ [Next]_vars => DelayInv'
<1> SUFFICES ASSUME DelayInv, [Next]_vars PROVE DelayInv'
  OBVIOUS
<1>0. TypeOK /\ Loaded /\ TypeOK' /\ SessionInv'
  BY NextSession DEF DelayInv, SessionInv, SafetyInv
<1>1. ASSUME NEW w \in Workers, Loads(w) PROVE Waited'
  <2>1. /\ UNCHANGED <<lead, waited>> /\ OthersStay(w)
        /\ worker'[w].todo \subseteq Leads
        /\ \A l \in worker'[w].todo :
              /\ worker'[w].seen[l].step = lead[l].step
              /\ lead[l].due = "now" \/ lead[l].step = 0
    BY <1>1 DEF Loads
  <2>2. \A l \in worker'[w].todo : StepOf(w, l)' = FromOne(lead[l].step)
    BY <2>1 DEF StepOf
  <2>3. \A l \in worker'[w].todo : StepOf(w, l)' \in Later => waited[l]
    BY <2>1, <2>2 DEF DelayInv, Waited, FromOne, Later
  <2>4. \A v \in Workers \ {w} : \A l \in worker'[v].todo :
           l \in worker[v].todo /\ StepOf(v, l)' = StepOf(v, l)
    BY <2>1 DEF StepOf, OthersStay
  <2> QED
    BY <2>1, <2>3, <2>4 DEF DelayInv, Waited
<1>2. ASSUME NEW l \in Leads, TimePasses(l) PROVE Waited'
  <2>1. /\ worker' = worker /\ waited' = [waited EXCEPT ![l] = TRUE]
        /\ \A k \in Leads \ {l} : lead'[k] = lead[k]
    BY <1>0, <1>2, TimeRows DEF TimePasses, TimeFrame
  <2>2. waited'[l] /\ \A k \in Leads \ {l} : waited'[k] = waited[k]
    BY <1>0, <2>1 DEF TypeOK
  <2>3. \A w \in Workers : worker[w].todo \subseteq Leads
    BY <1>0, WorkerFields DEF TypeOK
  <2>4. \A w \in Workers : \A k \in worker[w].todo : StepOf(w, k)' = StepOf(w, k)
    BY <2>1 DEF StepOf
  <2>5. \A k \in Leads : lead'[k].due = "now" /\ lead'[k].step \in Later =>
           waited'[k]
    BY <2>1, <2>2 DEF DelayInv, Waited
  <2>6. \A w \in Workers : \A k \in worker'[w].todo :
           StepOf(w, k)' \in Later => waited'[k]
    BY <2>1, <2>2, <2>3, <2>4 DEF DelayInv, Waited
  <2> QED
    BY <2>5, <2>6 DEF Waited
<1>3. ASSUME Quiet PROVE Waited'
  <2>1. /\ waited' = waited /\ lead' = lead
        /\ \A w \in Workers :
              /\ worker'[w].todo \subseteq worker[w].todo
              /\ \A l \in worker'[w].todo : worker'[w].seen[l] = worker[w].seen[l]
    BY <1>3 DEF Quiet, Drops, Rests, Holds
  <2> QED
    BY <2>1, DelayKeeps
<1>4. Waited'
  BY <1>0, <1>1, <1>2, <1>3, NextShape, DelayHandles, DelayUser
<1> QED
  BY <1>0, <1>4 DEF DelayInv

\* While sessions end before their locks expire and nobody restarts a campaign
\* or moves a lead by hand, a session acts on a delayed step only after the
\* delay that began with the step before it.
THEOREM DelayCorrect ==
    ASSUME ~SlowSessions, PatchSteps = {}, "restart" \notin UserOps
    PROVE  Spec => []DelayHonoured
<1>1. Init => DelayInv
  <2> SUFFICES ASSUME Init PROVE Waited
    BY InitSession DEF DelayInv
  <2>1. \A w \in Workers : worker[w].todo = {}
    BY DEF Init, Idle
  <2>2. \A l \in Leads : lead[l].due = "none" \/ lead[l].step = 1
    BY NewRows DEF Init
  <2> QED
    BY <2>1, <2>2 DEF Waited, Later
<1>2. DelayInv /\ [Next]_vars => DelayInv'
  BY NextDelay
<1>3. DelayInv => DelayHonoured
  BY DEF DelayInv, SessionInv, Loaded, Waited, DelayHonoured, Later
<1> QED
  BY <1>1, <1>2, <1>3, PTL DEF Spec

-----------------------------------------------------------------------------
(* No step twice.  The steps a lead still stands before have been seen by   *)
(* LinkedIn as often as there were faults at most, and where leads can be   *)
(* moved back, restarts and edits.  Between an action and the record of its *)
(* result the step acted on may have been seen once more; the record moves  *)
(* the lead on or stops it, and a lead that was never touched has not been  *)
(* acted on, so that starting a campaign again is harmless.                 *)

Counted(w, l) ==
    /\ l \in worker[w].cur /\ worker[w].pc = "recording"
    /\ worker[w].result \in {"ok", "fail"}

MayMoveBack == PatchSteps # {} \/ "restart" \in UserOps
Lapses == IF MayMoveBack THEN faults + resets ELSE faults

ClearFrom(l, n) == \A m \in Steps : m >= n => performed[l][m] <= Lapses

RowAsked(l) ==
    /\ \A n \in Steps : performed[l][n] <= 1 + Lapses
    /\ StatusOf(l) = "deleted" => lead[l].status = "absent"
    /\ lead[l].status = "absent" =>
          \/ StatusOf(l) = "deleted"
          \/ \A n \in Steps : performed[l][n] = 0
    /\ ~MayMoveBack /\ lead[l].status # "absent" => lead[l].step >= 1

\* The lead may be loaded, for the step it stands at or, at none, for the
\* first.
Loadable(l) ==
    \/ lead[l].due # "none"
    \/ lead[l].step = 0 /\ lead[l].status \in Workable

RowClear(l) ==
    lead[l].status # "absent" =>
       /\ ~lead[l].touched => ClearFrom(l, 1)
       /\ Loadable(l) => ClearFrom(l, lead[l].step)

HeldAsked(w, l) ==
    /\ lead[l].status = "absent" => StatusOf(l) = "deleted"
    /\ IF Counted(w, l) THEN ClearFrom(l, StepOf(w, l) + 1)
       ELSE /\ ClearFrom(l, worker[w].seen[l].step)
            /\ lead[l].status # "absent" => ClearFrom(l, lead[l].step)

AskedOnce ==
    /\ \A l \in Leads : /\ RowAsked(l)
                        /\ (\A w \in Workers : ~Counted(w, l)) => RowClear(l)
    /\ \A w \in Workers : \A l \in worker[w].todo : HeldAsked(w, l)

RepeatInv == SessionInv /\ AskedOnce

LEMMA RepeatTyped ==
    ASSUME TypeOK
    PROVE  /\ NumSteps \in Nat /\ Lapses \in Nat /\ 1 \in Steps
           /\ faults \in Nat /\ resets \in Nat
           /\ \A l \in Leads : /\ lead[l] \in Lead
                               /\ lead[l].step \in 0..NumSteps
                               /\ lead[l].due \in {"none", "later", "now"}
           /\ \A l \in Leads, n \in Steps : performed[l][n] \in Nat
           /\ \A w \in Workers : worker[w].todo \subseteq Leads
           /\ \A w \in Workers : \A l \in worker[w].todo :
                 worker[w].seen[l].step \in 0..NumSteps
<1>1. /\ NumSteps \in Nat \ {0} /\ \A w \in Workers : worker[w] \in WorkerState
      /\ \A l \in Leads : lead[l] \in Lead
  BY ConstantsAssumption DEF TypeOK
<1>2. \A w \in Workers : \A l \in worker[w].todo :
         l \in Leads /\ worker[w].seen[l] \in SeenRow
  BY <1>1, WorkerFields
<1>3. faults \in Nat /\ resets \in Nat /\ Lapses \in Nat
  BY DEF TypeOK, Lapses
<1> QED
  BY <1>1, <1>2, <1>3, LeadFields DEF TypeOK, Steps, SeenRow, Due

\* The bound grows with a fault and, if a lead may be moved back, a reset.
LEMMA LapsesGrow ==
    ASSUME TypeOK
    PROVE  /\ UNCHANGED <<faults, resets>> => Lapses' = Lapses
           /\ faults' = faults + 1 /\ resets' = resets => Lapses' = Lapses + 1
           /\ MayMoveBack /\ faults' = faults /\ resets' = resets + 1 =>
                 Lapses' = Lapses + 1
           /\ ~MayMoveBack /\ faults' = faults => Lapses' = Lapses
<1>1. faults \in Nat /\ resets \in Nat
  BY RepeatTyped
<1>2. MayMoveBack \in BOOLEAN
  BY DEF MayMoveBack
<1> QED
  BY <1>1, <1>2 DEF Lapses

\* When the bound has grown, every lead is clear.
LEMMA AllClear ==
    ASSUME RepeatInv, performed' = performed, Lapses' = Lapses + 1
    PROVE  /\ \A l \in Leads, i \in Int : ClearFrom(l, i)'
           /\ \A l \in Leads, n \in Steps : performed'[l][n] <= 1 + Lapses'
<1>1. /\ Lapses \in Nat /\ \A l \in Leads, n \in Steps : performed[l][n] \in Nat
  BY RepeatTyped DEF RepeatInv, SessionInv, SafetyInv
<1>2. \A l \in Leads, n \in Steps : performed[l][n] <= 1 + Lapses
  BY DEF RepeatInv, AskedOnce, RowAsked
<1>3. \A l \in Leads, n \in Steps :
         performed'[l][n] <= Lapses' /\ performed'[l][n] <= 1 + Lapses'
  BY <1>1, <1>2
<1> QED
  BY <1>3 DEF ClearFrom

LEMMA ClearGrows ==
    ASSUME NEW l, NEW i \in Int, NEW j \in Int, i <= j, ClearFrom(l, i),
           NumSteps \in Nat
    PROVE  ClearFrom(l, j)
BY DEF ClearFrom, Steps

\* A lead that is held by one session is counted by no other.
LEMMA CountedOnce ==
    ASSUME RepeatInv, NEW w \in Workers, worker[w].pc # "idle",
           NEW l \in Leads, ~Counted(w, l)
    PROVE  RowClear(l)
<1>1. \A v \in Workers : ~Counted(v, l)
  BY OneHolder DEF RepeatInv, SessionInv, Counted
<1> QED
  BY <1>1 DEF RepeatInv, AskedOnce

\* Requests: what they may do to a row.
LEMMA RepeatRows ==
    ASSUME RepeatInv, UNCHANGED <<worker, performed>>, Lapses' = Lapses,
           \A l \in Leads : RowAsked(l)',
           \A l \in Leads : (\A w \in Workers : ~Counted(w, l)) => RowClear(l)',
           \A w \in Workers : \A l \in worker[w].todo :
              IF lead'[l].status = "absent" THEN StatusOf(l)' = "deleted"
              ELSE lead'[l].step = lead[l].step /\ lead[l].status # "absent"
    PROVE  AskedOnce'
<1>1. \A w \in Workers, l \in Leads : Counted(w, l)' = Counted(w, l)
  BY DEF Counted
<1>3. ASSUME NEW w \in Workers, NEW l \in worker[w].todo
      PROVE  HeldAsked(w, l)'
  <2>1. HeldAsked(w, l)
    BY DEF RepeatInv, AskedOnce
  <2>2. /\ Counted(w, l)' = Counted(w, l) /\ StepOf(w, l)' = StepOf(w, l)
        /\ worker'[w].seen[l].step = worker[w].seen[l].step
    BY DEF Counted, StepOf
  <2>3. CASE Counted(w, l)
    <3>1. ClearFrom(l, StepOf(w, l) + 1)
      BY <2>1, <2>3 DEF HeldAsked
    <3>2. ClearFrom(l, StepOf(w, l) + 1)'
      BY <2>2, <3>1 DEF ClearFrom
    <3> QED
      BY <2>2, <2>3, <3>2 DEF HeldAsked
  <2>4. CASE ~Counted(w, l)
    <3>1. /\ ClearFrom(l, worker[w].seen[l].step)
          /\ lead[l].status # "absent" => ClearFrom(l, lead[l].step)
      BY <2>1, <2>4 DEF HeldAsked
    <3>2. /\ ClearFrom(l, worker[w].seen[l].step)'
          /\ lead'[l].status # "absent" => ClearFrom(l, lead[l].step)'
      BY <2>2, <3>1 DEF ClearFrom
    <3> QED
      BY <2>2, <2>4, <3>2 DEF HeldAsked
  <2> QED
    BY <2>3, <2>4
<1> QED
  BY <1>1, <1>3 DEF AskedOnce, Counted

\* A row that a request leaves where it is.
LEMMA RowKept ==
    ASSUME RepeatInv, performed' = performed, Lapses' = Lapses, NEW l \in Leads,
           StatusOf(l)' = "deleted" <=> StatusOf(l) = "deleted",
           lead'[l].status = "absent" <=> lead[l].status = "absent",
           lead'[l].step = lead[l].step, Loadable(l)' => Loadable(l),
           lead'[l].touched = lead[l].touched
    PROVE  RowAsked(l)' /\ (RowClear(l) => RowClear(l)')
<1>1. RowAsked(l)
  BY DEF RepeatInv, AskedOnce
<1>2. RowAsked(l)'
  BY <1>1 DEF RowAsked, MayMoveBack
<1>3. RowClear(l) => RowClear(l)'
  BY DEF RowClear, ClearFrom
<1> QED
  BY <1>2, <1>3

LEMMA RepeatUser ==
    ASSUME RepeatInv, UserStep
    PROVE  AskedOnce'
<1>0. /\ TypeOK /\ UNCHANGED <<worker, faults, performed>>
      /\ CampaignOf \in [Leads -> Campaigns]
  BY ConstantsAssumption DEF RepeatInv, SessionInv, SafetyInv, UserStep
\* What a session holds, when its row is still there, has not moved.
<1>1. ASSUME Lapses' = Lapses,
             \A l \in Leads :
               /\ StatusOf(l)' = "deleted" <=> StatusOf(l) = "deleted"
               /\ lead'[l].status = "absent" <=> lead[l].status = "absent"
               /\ lead'[l].step = lead[l].step
               /\ Loadable(l)' => Loadable(l)
               /\ lead'[l].touched = lead[l].touched
      PROVE  AskedOnce'
  <2>1. \A l \in Leads : RowAsked(l)' /\ (RowClear(l) => RowClear(l)')
    BY <1>0, <1>1, RowKept
  <2>2. \A l \in Leads : (\A w \in Workers : ~Counted(w, l)) => RowClear(l)'
    BY <2>1 DEF RepeatInv, AskedOnce
  <2>3. \A w \in Workers : \A l \in worker[w].todo :
           IF lead'[l].status = "absent" THEN StatusOf(l)' = "deleted"
           ELSE lead'[l].step = lead[l].step /\ lead[l].status # "absent"
    BY <1>0, <1>1, RepeatTyped DEF RepeatInv, AskedOnce, HeldAsked
  <2> QED
    BY <1>0, <1>1, <2>1, <2>2, <2>3, RepeatRows
\* A restart, or an edit where leads may be moved back, allows one more
\* action to each lead.
<1>2. ASSUME MayMoveBack, resets' = resets + 1,
             \A l \in Leads :
               /\ StatusOf(l)' = "deleted" <=> StatusOf(l) = "deleted"
               /\ lead'[l].status = "absent" <=> lead[l].status = "absent",
             \A l \in Leads : lead'[l].step \in Int
      PROVE  AskedOnce'
  <2>1. Lapses' = Lapses + 1
    BY <1>0, <1>2, LapsesGrow
  <2>2. /\ \A l \in Leads, i \in Int : ClearFrom(l, i)'
        /\ \A l \in Leads, n \in Steps : performed'[l][n] <= 1 + Lapses'
    BY <1>0, <2>1, AllClear
  <2>3. ASSUME NEW l \in Leads PROVE RowAsked(l)' /\ RowClear(l)'
    <3>1. RowAsked(l)
      BY DEF RepeatInv, AskedOnce
    <3>2. RowAsked(l)'
      BY <1>0, <1>2, <2>2, <3>1 DEF RowAsked, MayMoveBack
    <3> QED
      BY <1>2, <2>2, <3>2 DEF RowClear
  <2>4. ASSUME NEW w \in Workers, NEW l \in worker[w].todo
        PROVE  HeldAsked(w, l)'
    <3>1. /\ l \in Leads /\ HeldAsked(w, l) /\ worker[w].seen[l].step \in Int
          /\ StepOf(w, l) \in Int
      BY <1>0, RepeatTyped DEF RepeatInv, AskedOnce, StepOf, FromOne
    <3>2. StepOf(w, l)' = StepOf(w, l)
      BY <1>0 DEF StepOf
    <3>3. /\ ClearFrom(l, StepOf(w, l) + 1)'
          /\ ClearFrom(l, worker[w].seen[l].step)'
          /\ ClearFrom(l, lead[l].step)'
      <4>1. PICK i \in Int : i = StepOf(w, l) + 1
        BY <3>1
      <4>2. PICK j \in Int : j = worker[w].seen[l].step
        BY <3>1
      <4>3. PICK k \in Int : k = lead'[l].step
        BY <1>2, <3>1
      <4>4. ClearFrom(l, i)' /\ ClearFrom(l, j)' /\ ClearFrom(l, k)'
        BY <2>2, <3>1
      <4> QED
        BY <1>0, <3>2, <4>1, <4>2, <4>3, <4>4 DEF ClearFrom
    <3> QED
      BY <1>0, <1>2, <3>1, <3>3 DEF HeldAsked
  <2> QED
    BY <1>0, <2>3, <2>4 DEF AskedOnce
<1>3. ASSUME NEW c \in Campaigns, StartCampaign(c) PROVE AskedOnce'
  <2>1. /\ \A l \in Leads : StatusOf(l)' = "deleted" <=> StatusOf(l) = "deleted"
        /\ \A w \in Workers : worker[w].todo = {} /\ worker[w].cur = {}
        /\ Lapses' = Lapses
    <3>1. \A w \in Workers : worker[w].pc = "idle"
      BY <1>3, ConstantsAssumption DEF StartCampaign, RepeatInv, SessionInv,
         SafetyInv, OneSession
    <3>2. \A w \in Workers : worker[w].todo = {} /\ worker[w].cur = {}
      BY <3>1 DEF RepeatInv, SessionInv, Loaded
    <3>3. \A l \in Leads : StatusOf(l)' = "deleted" <=> StatusOf(l) = "deleted"
      BY <1>0, <1>3 DEF StartCampaign, Activate, StatusOf, TypeOK, Campaign
    <3>4. UNCHANGED <<faults, resets>>
      BY <1>0, <1>3 DEF StartCampaign
    <3> QED
      BY <1>0, <3>2, <3>3, <3>4, LapsesGrow
  <2>2. ASSUME NEW l \in Leads PROVE RowAsked(l)' /\ RowClear(l)'
    <3>1. RowClear(l) /\ RowAsked(l)
      BY <2>1 DEF RepeatInv, AskedOnce, Counted
    <3>2. CASE lead'[l] = lead[l]
      <4>1. Loadable(l)' => Loadable(l)
        BY <3>2 DEF Loadable
      <4> QED
        BY <1>0, <2>1, <3>1, <3>2, <4>1, RowKept
    <3>3. CASE /\ lead[l].status = "pending" /\ ~lead[l].touched
               /\ lead'[l].step = 1 /\ lead'[l].due = "now"
               /\ lead'[l].status = lead[l].status /\ SameRow(l)
      <4>1. ClearFrom(l, 1)
        BY <3>1, <3>3 DEF RowClear
      <4>2. ClearFrom(l, 1)'
        BY <1>0, <2>1, <4>1 DEF ClearFrom
      <4>3. RowClear(l)'
        BY <3>3, <4>2 DEF RowClear
      <4> QED
        BY <1>0, <2>1, <3>1, <3>3, <4>3 DEF RowAsked, MayMoveBack
    <3> QED
      BY <1>0, <1>3, <3>2, <3>3, StartRows
  <2> QED
    BY <1>0, <2>1, <2>2, RepeatRows
<1>4. ASSUME NEW c \in Campaigns, DeleteCampaign(c) PROVE AskedOnce'
  <2>1. \A l \in Leads : IF CampaignOf[l] = c
              THEN lead'[l] = NoLead /\ StatusOf(l)' = "deleted"
              ELSE lead'[l] = lead[l] /\ StatusOf(l)' = StatusOf(l)
    BY <1>0, <1>4 DEF DeleteCampaign, StatusOf, Of, TypeOK
  <2>2. Lapses' = Lapses
    BY <1>0, <1>4, LapsesGrow DEF DeleteCampaign
  <2>3. ASSUME NEW l \in Leads PROVE RowAsked(l)' /\ (RowClear(l) => RowClear(l)')
    <3>1. CASE CampaignOf[l] = c
      <4>1. lead'[l].status = "absent" /\ StatusOf(l)' = "deleted"
        BY <2>1, <3>1, NewRows
      <4> QED
        BY <1>0, <2>2, <4>1 DEF RowAsked, RowClear, RepeatInv, AskedOnce
    <3>2. CASE CampaignOf[l] # c
      <4>1. lead'[l] = lead[l] /\ StatusOf(l)' = StatusOf(l)
        BY <2>1, <3>2
      <4>2. Loadable(l)' => Loadable(l)
        BY <4>1 DEF Loadable
      <4> QED
        BY <1>0, <2>2, <4>1, <4>2, RowKept
    <3> QED
      BY <3>1, <3>2
  <2>4. \A w \in Workers : \A l \in worker[w].todo :
           IF lead'[l].status = "absent" THEN StatusOf(l)' = "deleted"
           ELSE lead'[l].step = lead[l].step /\ lead[l].status # "absent"
    BY <1>0, <2>1, NewRows, RepeatTyped DEF RepeatInv, AskedOnce, HeldAsked
  <2>5. \A l \in Leads : (\A w \in Workers : ~Counted(w, l)) => RowClear(l)'
    BY <2>3 DEF RepeatInv, AskedOnce
  <2> QED
    BY <1>0, <2>2, <2>3, <2>4, <2>5, RepeatRows
<1>5. ASSUME NEW k \in Leads, AddLead(k) PROVE AskedOnce'
  <2>1. /\ lead'[k] = NewLead /\ lead[k].status = "absent"
        /\ \A l \in Leads \ {k} : lead'[l] = lead[l]
        /\ StatusOf(k) # "deleted"
        /\ \A l \in Leads : StatusOf(l)' = StatusOf(l)
    BY <1>0, <1>5 DEF AddLead, TypeOK, StatusOf
  <2>2. Lapses' = Lapses
    BY <1>0, <1>5, LapsesGrow DEF AddLead
  <2>3. \A n \in Steps : performed[k][n] = 0
    BY <2>1 DEF RepeatInv, AskedOnce, RowAsked
  <2>4. RowAsked(k)' /\ RowClear(k)'
    <3>1. performed' = performed /\ Lapses' = Lapses /\ Lapses \in Nat
      BY <1>0, <2>2, RepeatTyped
    <3>2. /\ lead'[k].status = "pending" /\ lead'[k].step = 1
          /\ StatusOf(k)' # "deleted"
      BY <2>1, NewRows
    <3>3. \A n \in Int : ClearFrom(k, n)'
      BY <2>3, <3>1 DEF ClearFrom
    <3>4. RowAsked(k)'
      BY <2>3, <3>1, <3>2 DEF RowAsked
    <3> QED
      BY <3>2, <3>3, <3>4 DEF RowClear
  <2>5. ASSUME NEW l \in Leads \ {k}
        PROVE  RowAsked(l)' /\ (RowClear(l) => RowClear(l)')
    <3>1. Loadable(l)' => Loadable(l)
      BY <2>1 DEF Loadable
    <3> QED
      BY <1>0, <2>1, <2>2, <3>1, RowKept
  <2>6. \A w \in Workers : \A l \in worker[w].todo :
           IF lead'[l].status = "absent" THEN StatusOf(l)' = "deleted"
           ELSE lead'[l].step = lead[l].step /\ lead[l].status # "absent"
    BY <1>0, <2>1, RepeatTyped DEF RepeatInv, AskedOnce, HeldAsked
  <2>7. \A l \in Leads : (\A w \in Workers : ~Counted(w, l)) => RowClear(l)'
    BY <2>4, <2>5 DEF RepeatInv, AskedOnce
  <2> QED
    BY <1>0, <2>2, <2>4, <2>5, <2>6, <2>7, RepeatRows
<1>6. ASSUME NEW l \in Leads, NEW st \in PatchStatuses \cup {lead[l].status},
             NEW n \in PatchSteps \cup {lead[l].step}, PatchLead(l, st, n)
      PROVE  AskedOnce'
  <2>1. /\ \A k \in Leads \ {l} : lead'[k] = lead[k]
        /\ lead'[l].status = st /\ lead'[l].step = n
        /\ lead'[l].due = lead[l].due /\ SameRow(l)
        /\ resets' = resets + 1
    <3>1. resets' = resets + 1
      BY <1>6 DEF PatchLead
    <3> QED
      BY <1>0, <1>6, <3>1, PatchRows
  <2>2. /\ st # "absent" /\ lead[l].status # "absent" /\ campaign' = campaign
    BY <1>6, ConstantsAssumption DEF PatchLead
  <2>3. \A k \in Leads : StatusOf(k)' = StatusOf(k)
    BY <2>2 DEF StatusOf
  <2>4. CASE MayMoveBack
    <3>1. \A k \in Leads : lead'[k].step \in Int
      BY <1>0, <2>1, RepeatTyped, ConstantsAssumption
    <3> QED
      BY <1>2, <2>1, <2>2, <2>3, <2>4, <3>1
  <2>5. CASE ~MayMoveBack
    <3>1. Lapses' = Lapses /\ n = lead[l].step /\ lead[l].step >= 1
      <4>1. Lapses' = Lapses
        BY <1>0, <2>5, LapsesGrow
      <4>2. n = lead[l].step
        BY <2>5 DEF MayMoveBack
      <4> QED
        BY <2>2, <2>5, <4>1, <4>2 DEF RepeatInv, AskedOnce, RowAsked
    <3>2. \A k \in Leads : Loadable(k)' => Loadable(k)
      BY <2>1, <3>1 DEF Loadable
    <3> QED
      BY <1>1, <2>1, <2>2, <2>3, <3>1, <3>2 DEF SameRow
  <2> QED
    BY <2>4, <2>5
<1>7. ASSUME NEW c \in Campaigns, RestartCampaign(c) PROVE AskedOnce'
  <2>1. MayMoveBack /\ resets' = resets + 1
    BY <1>7 DEF RestartCampaign, MayMoveBack
  <2>2. \A l \in Leads : StatusOf(l)' = "deleted" <=> StatusOf(l) = "deleted"
    BY <1>0, <1>7 DEF RestartCampaign, Activate, StatusOf, TypeOK, Campaign
  <2>3. \A l \in Leads :
          /\ lead'[l].status = "absent" <=> lead[l].status = "absent"
          /\ lead'[l].step \in Int
    <3> SUFFICES ASSUME NEW l \in Leads
                 PROVE  /\ lead'[l].status = "absent" <=> lead[l].status = "absent"
                        /\ lead'[l].step \in Int
      OBVIOUS
    <3>1. lead[l].step \in Int
      BY <1>0, RepeatTyped
    <3> QED
      BY <1>0, <1>7, <3>1, RestartRows
  <2> QED
    BY <1>2, <2>1, <2>2, <2>3
<1>8. ASSUME UNCHANGED <<lead, resets>>,
             \A c \in Campaigns : campaign'[c].status = "deleted" <=>
                                  campaign[c].status = "deleted"
      PROVE  AskedOnce'
  <2>1. \A l \in Leads : StatusOf(l)' = "deleted" <=> StatusOf(l) = "deleted"
    BY <1>0, <1>8 DEF StatusOf
  <2>2. Lapses' = Lapses
    BY <1>0, <1>8, LapsesGrow
  <2>3. \A l \in Leads : Loadable(l)' => Loadable(l)
    BY <1>8 DEF Loadable
  <2> QED
    BY <1>1, <1>8, <2>1, <2>2, <2>3
<1>9. ASSUME NEW c \in Campaigns,
             PauseCampaign(c) \/ \E n \in Steps : DeleteStep(c, n)
      PROVE  AskedOnce'
  <2>1. UNCHANGED <<lead, resets>> /\ \A d \in Campaigns :
          campaign'[d].status = "deleted" <=> campaign[d].status = "deleted"
    BY <1>0, <1>9 DEF PauseCampaign, DeleteStep, TypeOK, Campaign
  <2> QED
    BY <1>8, <2>1
<1>10. CASE Reconnect \/ UserOpens
  BY <1>8, <1>10 DEF Reconnect, UserOpens, dbVars
<1> QED
  BY <1>3, <1>4, <1>5, <1>6, <1>7, <1>9, <1>10 DEF UserStep

LEMMA BoundGrows ==
    ASSUME NEW y \in Nat, NEW z \in Nat, z >= y
    PROVE  \A x \in Nat : (x <= y => x <= z) /\ (x <= 1 + y => x <= 1 + z)
OBVIOUS

LEMMA RepeatHandles ==
    ASSUME RepeatInv, TypeOK', Loaded', NEW w \in Workers, NEW l \in Leads,
           Handles(w, l)
    PROVE  AskedOnce'
<1>0. /\ SessionInv /\ TypeOK /\ Loaded
      /\ l \in worker[w].todo /\ worker[w].pc # "idle"
  BY HandlerIsBusy DEF RepeatInv, SessionInv, SafetyInv
<1>1. /\ RowAsked(l) /\ HeldAsked(w, l)
      /\ ~Counted(w, l) => RowClear(l)
  BY <1>0, CountedOnce DEF RepeatInv, AskedOnce
<1>n. PICK n \in Int : n = StepOf(w, l)
  BY <1>0, RepeatTyped DEF StepOf, FromOne
<1>s. PICK s \in Int : s = worker[w].seen[l].step
  BY <1>0, RepeatTyped
<1>r. PICK r \in Int : r = lead[l].step
  BY <1>0, RepeatTyped
<1>2. /\ n \in Steps /\ n >= 1 /\ s >= 0 /\ r >= 0 /\ n = (IF s = 0 THEN 1 ELSE s)
      /\ NumSteps \in Nat /\ Lapses \in Nat /\ Lapses' \in Nat
      /\ Lapses' >= Lapses
      /\ \A k \in Leads, m \in Steps : performed[k][m] \in Nat
  <2>1. /\ n \in Steps /\ n >= 1 /\ s >= 0 /\ n = (IF s = 0 THEN 1 ELSE s)
        /\ NumSteps \in Nat /\ Lapses \in Nat /\ r >= 0
        /\ \A k \in Leads, m \in Steps : performed[k][m] \in Nat
    BY <1>0, <1>n, <1>s, <1>r, RepeatTyped, HeldTypes DEF StepOf, FromOne, Steps
  <2>2. faults' \in {faults, faults + 1} /\ resets' = resets
    BY DEF Handles, Begins, Acts, PassesOver, Skips, Succeeds, Retries, Stops,
       Suspends, Errs, Recorded, Finishes, RowOnly
  <2>3. Lapses' \in {Lapses, Lapses + 1}
    BY <1>0, <2>2, LapsesGrow
  <2> QED
    BY <2>1, <2>3
\* What is clear of the lead, as long as no action on it is counted.
<1>3. ~Counted(w, l) =>
        /\ ClearFrom(l, s) /\ ClearFrom(l, n)
        /\ lead[l].status # "absent" => ClearFrom(l, r) /\ RowClear(l)
  <2>1. ~Counted(w, l) => ClearFrom(l, s)
    BY <1>1, <1>s DEF HeldAsked
  <2>2. s <= n
    BY <1>2
  <2> QED
    BY <1>1, <1>2, <1>r, <2>1, <2>2, ClearGrows DEF HeldAsked
\* A lead that starts stood at no step, in its row or in the copy.
<1>4. Starts(w, l) /\ lead'[l].step # r => lead'[l].step = 1 /\ (r = 0 \/ s = 0)
  BY <1>r, <1>s DEF Starts, Seen
\* Nothing happens to the other leads, and no other session holds any.
<1>5. /\ \A k \in Leads \ {l} : lead'[k] = lead[k]
      /\ campaign' = campaign /\ OthersStay(w)
      /\ \A k \in Leads \ {l} : performed'[k] = performed[k]
  <2>1. /\ \A k \in Leads \ {l} : lead'[k] = lead[k]
        /\ campaign' = campaign /\ OthersStay(w)
    BY DEF Handles, Begins, Acts, PassesOver, Skips, Succeeds, Retries, Stops,
       Suspends, Errs, Recorded, Finishes, RowOnly
  <2>2. \/ performed' = performed
        \/ performed' = [performed EXCEPT ![l] = [performed[l] EXCEPT
                           ![StepOf(w, l)] = performed[l][StepOf(w, l)] + 1]]
    BY DEF Handles, Begins, Acts, PassesOver, Skips, Succeeds, Retries, Stops,
       Suspends, Errs, Recorded, Finishes
  <2> QED
    BY <1>0, <2>1, <2>2 DEF TypeOK
<1>6. \A k \in Leads : StatusOf(k)' = StatusOf(k)
  BY <1>5 DEF StatusOf
<1>7. \A v \in Workers \ {w} : /\ worker'[v] = worker[v]
                               /\ worker'[v].todo = {} /\ worker'[v].cur = {}
  BY <1>0, <1>5, OneHolder DEF SessionInv, OthersStay
<1>8. /\ \A k \in worker'[w].todo : /\ k \in worker[w].todo
                                    /\ worker'[w].seen[k] = worker[w].seen[k]
      /\ worker'[w].cur \subseteq {l} /\ worker[w].cur \subseteq {l}
  <2>1. CASE Begins(w, l) \/ Acts(w, l)
    BY <1>0, <2>1 DEF Begins, Acts, Loaded
  <2>2. CASE Rests(w) /\ (worker[w].cur = {} \/ l \in worker[w].cur)
    BY <1>0, <2>2 DEF Rests, Holds, Loaded
  <2> QED
    BY <2>1, <2>2 DEF Handles, PassesOver, Skips, Succeeds, Retries, Stops,
       Suspends, Errs, Recorded, Finishes
<1>9. ASSUME NEW k \in Leads \ {l}
      PROVE  /\ RowAsked(k)' /\ RowClear(k)'
             /\ k \in worker'[w].todo => HeldAsked(w, k)'
  <2>0. \A m \in Steps : /\ performed'[k][m] = performed[k][m]
                         /\ performed[k][m] \in Nat
    BY <1>2, <1>5
  <2>a. \A x \in Nat : /\ x <= Lapses => x <= Lapses'
                       /\ x <= 1 + Lapses => x <= 1 + Lapses'
    BY <1>2, BoundGrows
  <2>1. ~Counted(w, k) /\ ~Counted(w, k)'
    BY <1>8 DEF Counted
  <2>2. RowAsked(k) /\ RowClear(k) /\ lead'[k] = lead[k] /\ lead[k].step \in Int
    BY <1>0, <1>5, <2>1, CountedOnce, RepeatTyped DEF RepeatInv, AskedOnce
  <2>3. \A i \in Int : ClearFrom(k, i) => ClearFrom(k, i)'
    <3>1. \A m \in Steps : performed[k][m] <= Lapses => performed'[k][m] <= Lapses'
      BY <2>0, <2>a
    <3> QED
      BY <3>1 DEF ClearFrom
  <2>4. RowAsked(k)'
    <3>1. \A m \in Steps :
             performed[k][m] <= 1 + Lapses => performed'[k][m] <= 1 + Lapses'
      BY <2>0, <2>a
    <3>2. \A m \in Steps : performed'[k][m] <= 1 + Lapses'
      BY <2>2, <3>1 DEF RowAsked
    <3>3. StatusOf(k)' = StatusOf(k)
      BY <1>6
    <3>4. \A m \in Steps : performed[k][m] = 0 => performed'[k][m] = 0
      BY <2>0
    <3> QED
      BY <2>2, <3>2, <3>3, <3>4 DEF RowAsked, MayMoveBack
  <2>5. RowClear(k)'
    BY <2>2, <2>3 DEF RowClear, Loadable
  <2>6. ASSUME k \in worker'[w].todo PROVE HeldAsked(w, k)'
    <3>1. /\ HeldAsked(w, k) /\ worker'[w].seen[k] = worker[w].seen[k]
          /\ worker[w].seen[k].step \in Int
      BY <1>0, <1>8, <2>6, RepeatTyped DEF RepeatInv, AskedOnce
    <3>2. /\ ClearFrom(k, worker[w].seen[k].step)'
          /\ lead[k].status # "absent" => ClearFrom(k, lead[k].step)'
      BY <2>1, <2>2, <2>3, <3>1 DEF HeldAsked
    <3> QED
      BY <1>6, <2>1, <2>2, <3>1, <3>2 DEF HeldAsked
  <2> QED
    BY <2>4, <2>5, <2>6
\* It is enough to look at the lead it handles.
<1>10. ASSUME RowAsked(l)', Counted(w, l)' \/ RowClear(l)',
              l \in worker'[w].todo => HeldAsked(w, l)'
       PROVE  AskedOnce'
  <2>1. \A k \in worker'[w].todo : k \in Leads
    BY <1>0, <1>8, RepeatTyped
  <2>2. \A v \in Workers : \A k \in worker'[v].todo : HeldAsked(v, k)'
    BY <1>7, <1>9, <1>10, <2>1
  <2> QED
    BY <1>9, <1>10, <2>2 DEF AskedOnce
<1>11. performed' = performed /\ Lapses' = Lapses =>
          \A i \in Int : ClearFrom(l, i) <=> ClearFrom(l, i)'
  BY DEF ClearFrom
<1>12. UNCHANGED faults => Lapses' = Lapses
  <2>1. resets' = resets
    BY DEF Handles, Begins, Acts, PassesOver, Skips, Succeeds, Retries, Stops,
       Suspends, Errs, Recorded, Finishes, RowOnly
  <2> QED
    BY <1>0, <2>1, LapsesGrow
\* The row stands where it stood, or at the first step instead of none, and
\* everything from there on is clear.
<1>13. ASSUME lead'[l].status = lead[l].status, Starts(w, l),
              ~lead'[l].touched => ~lead[l].touched,
              UNCHANGED <<performed, faults>>, ~Counted(w, l)
       PROVE  /\ RowAsked(l)' /\ RowClear(l)'
              /\ lead'[l].status # "absent" => ClearFrom(l, lead[l].step)'
  <2>1. PICK t \in Int :
           /\ t = lead'[l].step
           /\ t = r \/ (t = 1 /\ (r = 0 \/ s = 0))
    BY <1>4, <1>13
  <2>2. lead'[l].status # "absent" => ClearFrom(l, t)
    <3>1. CASE t = r
      BY <1>3, <1>13, <3>1
    <3>2. CASE t = 1 /\ (r = 0 \/ s = 0)
      BY <1>2, <1>3, <1>13, <3>2, ClearGrows
    <3> QED
      BY <2>1, <3>1, <3>2
  <2>3. Lapses' = Lapses
    BY <1>12, <1>13
  <2>4. lead'[l].status # "absent" => ClearFrom(l, t)'
    BY <1>11, <1>13, <2>2, <2>3
  <2>5. RowAsked(l)'
    <3>1. r >= 1 => t >= 1
      BY <2>1
    <3> QED
      BY <1>1, <1>6, <1>r, <1>13, <2>1, <2>3, <3>1 DEF RowAsked, MayMoveBack
  <2>6. ~lead'[l].touched /\ lead'[l].status # "absent" => ClearFrom(l, 1)'
    BY <1>3, <1>11, <1>13, <2>3 DEF RowClear
  <2> QED
    BY <2>1, <2>4, <2>5, <2>6 DEF RowClear
<1>14. CASE Begins(w, l)
  <2>1. /\ lead'[l].status = lead[l].status /\ lead'[l].touched = lead[l].touched
        /\ UNCHANGED <<performed, faults>> /\ Starts(w, l)
        /\ worker'[w].seen = worker[w].seen
        /\ ~Counted(w, l) /\ ~Counted(w, l)'
    BY <1>14 DEF Begins, SameRow, Counted
  <2>2. /\ RowAsked(l)' /\ RowClear(l)'
        /\ lead'[l].status # "absent" => ClearFrom(l, lead[l].step)'
    BY <1>13, <2>1
  <2>3. ClearFrom(l, worker[w].seen[l].step)'
    <3>1. ClearFrom(l, s)'
      BY <1>3, <1>11, <1>12, <2>1
    <3> QED
      BY <1>s, <2>1, <3>1 DEF ClearFrom
  <2>4. HeldAsked(w, l)'
    BY <1>1, <1>6, <2>1, <2>2, <2>3 DEF HeldAsked
  <2> QED
    BY <1>10, <2>2, <2>4
<1>15. CASE Acts(w, l)
  <2>1. /\ lead' = lead /\ worker'[w].seen = worker[w].seen
        /\ worker'[w].pc = "recording" /\ l \in worker'[w].cur
        /\ ~Counted(w, l) /\ resets' = resets
        /\ faults' = IF worker'[w].result = "error" THEN faults + 1 ELSE faults
        /\ StepOf(w, l)' = StepOf(w, l)
    BY <1>15 DEF Acts, Counted, RowOnly, StepOf
  <2>2. \/ performed' = performed
        \/ /\ worker'[w].result \in {"ok", "fail", "error"}
           /\ performed'[l][n] = performed[l][n] + 1
           /\ \A m \in Steps \ {n} : performed'[l][m] = performed[l][m]
    BY <1>0, <1>2, <1>n, <1>15 DEF Acts, TypeOK
  <2>3. Lapses' = IF worker'[w].result = "error" THEN Lapses + 1 ELSE Lapses
    BY <1>0, <2>1, LapsesGrow
  <2>4. /\ ClearFrom(l, n) /\ ClearFrom(l, s) /\ RowClear(l)
        /\ lead[l].status # "absent" => ClearFrom(l, r)
    BY <1>1, <1>3, <2>1
  <2>5. \A m \in Steps : performed'[l][m] <= 1 + Lapses'
    <3> SUFFICES ASSUME NEW m \in Steps PROVE performed'[l][m] <= 1 + Lapses'
      OBVIOUS
    <3>1. performed[l][m] <= 1 + Lapses /\ performed[l][m] \in Nat
      BY <1>1, <1>2 DEF RowAsked
    <3>2. CASE m # n \/ performed' = performed
      <4>1. performed'[l][m] = performed[l][m]
        BY <2>2, <3>2
      <4>2. PICK x \in Nat : x = performed[l][m]
        BY <3>1
      <4>3. x <= 1 + Lapses'
        BY <1>2, <3>1, <4>2
      <4> QED
        BY <4>1, <4>2, <4>3
    <3>3. CASE m = n
      <4>1. performed[l][n] <= Lapses
        BY <1>2, <2>4 DEF ClearFrom
      <4> QED
        BY <1>2, <2>2, <3>1, <3>2, <3>3, <4>1
    <3> QED
      BY <3>2, <3>3
  <2>6. RowAsked(l)'
    BY <1>1, <1>6, <2>1, <2>5 DEF RowAsked, HeldAsked, MayMoveBack
\* Unless the action is counted, as much is clear as before.
  <2>7. CASE ~Counted(w, l)'
    <3>1. performed' = performed \/ worker'[w].result = "error"
      BY <2>1, <2>2, <2>7 DEF Counted
    <3>2. \A m \in Steps : performed[l][m] <= Lapses => performed'[l][m] <= Lapses'
      <4> SUFFICES ASSUME NEW m \in Steps, performed[l][m] <= Lapses
                   PROVE  performed'[l][m] <= Lapses'
        OBVIOUS
      <4>1. PICK x \in Nat : x = performed[l][m]
        BY <1>2
      <4>2. CASE performed' = performed
        BY <1>2, <4>1, <4>2, BoundGrows
      <4>3. CASE worker'[w].result = "error"
        <5>1. Lapses' = Lapses + 1
          BY <2>3, <4>3
        <5>2. performed'[l][m] = x \/ performed'[l][m] = x + 1
          BY <2>2, <4>1
        <5>3. x <= Lapses' /\ x + 1 <= Lapses'
          BY <1>2, <4>1, <5>1
        <5> QED
          BY <5>2, <5>3
      <4> QED
        BY <3>1, <4>2, <4>3
    <3>3. \A i \in Int : ClearFrom(l, i) => ClearFrom(l, i)'
      BY <3>2 DEF ClearFrom
    <3>4. RowClear(l)'
      BY <1>r, <2>1, <2>4, <3>3 DEF RowClear, Loadable
    <3>5. ClearFrom(l, s)' /\ (lead[l].status # "absent" => ClearFrom(l, r)')
      BY <2>4, <3>3
    <3>6. HeldAsked(w, l)'
      <4>1. /\ ClearFrom(l, worker[w].seen[l].step)'
            /\ lead'[l].status # "absent" => ClearFrom(l, lead[l].step)'
        BY <1>r, <1>s, <2>1, <3>5 DEF ClearFrom
      <4> QED
        BY <1>1, <1>6, <2>1, <2>7, <4>1 DEF HeldAsked
    <3> QED
      BY <1>10, <2>6, <3>4, <3>6
  <2>8. CASE Counted(w, l)'
    <3>1. \A m \in Steps : m >= n + 1 => performed'[l][m] = performed[l][m]
      BY <1>2, <2>2 DEF Steps
    <3>2. Lapses' = Lapses
      BY <2>3, <2>8 DEF Counted
    <3>3. \A m \in Steps : m >= n + 1 => performed'[l][m] <= Lapses'
      BY <1>2, <2>4, <3>1, <3>2 DEF ClearFrom, Steps
    <3>4. ClearFrom(l, StepOf(w, l) + 1)'
      BY <1>n, <2>1, <3>3 DEF ClearFrom
    <3>5. HeldAsked(w, l)'
      BY <1>1, <1>6, <2>1, <2>8, <3>4 DEF HeldAsked
    <3> QED
      BY <1>10, <2>6, <2>8, <3>5
  <2> QED
    BY <2>7, <2>8
<1>16. CASE PassesOver(w, l) \/ Retries(w, l) \/ Errs(w, l)
  <2>1. /\ lead'[l].status = lead[l].status /\ Starts(w, l)
        /\ ~lead'[l].touched => ~lead[l].touched
        /\ UNCHANGED <<performed, faults>> /\ ~Counted(w, l)
        /\ l \notin worker'[w].todo
    BY <1>16 DEF PassesOver, Retries, Errs, Recorded, Finishes, SameRow,
                 Counted, Starts
  <2>2. RowAsked(l)' /\ RowClear(l)'
    BY <1>13, <2>1
  <2> QED
    BY <1>10, <2>1, <2>2
<1>17. CASE Stops(w, l) \/ Suspends(w, l)
  <2>1. /\ lead'[l].status = "failed" /\ lead'[l].step = lead[l].step
        /\ UNCHANGED <<performed, faults>> /\ StatusOf(l) # "deleted"
        /\ l \notin worker'[w].todo
        /\ \/ lead'[l].touched /\ lead'[l].due = "none"
           \/ /\ lead'[l].touched = lead[l].touched
              /\ lead'[l].due = lead[l].due /\ ~Counted(w, l)
    BY <1>17 DEF Stops, Suspends, Recorded, Finishes, Counted
  <2>2. lead[l].status # "absent" /\ Lapses' = Lapses
    BY <1>1, <1>12, <2>1 DEF HeldAsked
  <2>3. RowAsked(l)'
    BY <1>1, <1>6, <2>1, <2>2 DEF RowAsked, MayMoveBack
  <2>4. RowClear(l)'
    <3>1. CASE lead'[l].touched /\ lead'[l].due = "none"
      BY <2>1, <3>1 DEF RowClear, Loadable, Workable
    <3>2. CASE /\ lead'[l].touched = lead[l].touched
               /\ lead'[l].due = lead[l].due /\ ~Counted(w, l)
      <4>1. Loadable(l)' => ClearFrom(l, r)'
        BY <1>3, <1>11, <2>1, <2>2, <3>2
      <4>2. ~lead'[l].touched => ClearFrom(l, 1)'
        BY <1>3, <1>11, <2>1, <2>2, <3>2 DEF RowClear
      <4> QED
        BY <1>r, <2>1, <4>1, <4>2 DEF RowClear
    <3> QED
      BY <2>1, <3>1, <3>2
  <2> QED
    BY <1>10, <2>1, <2>3, <2>4
<1>18. CASE Skips(w, l) \/ Succeeds(w, l)
  <2>1. /\ GoesOn(w, l) /\ l \notin worker'[w].todo
        /\ UNCHANGED <<performed, faults>> /\ StatusOf(l) # "deleted"
        /\ lead'[l].touched \/ (lead'[l].touched = lead[l].touched
                                  /\ ~Counted(w, l))
    BY <1>18 DEF Skips, Succeeds, Recorded, Finishes, Counted
  <2>2. lead[l].status # "absent" /\ Lapses' = Lapses
    BY <1>1, <1>12, <2>1 DEF HeldAsked
  <2>3. PICK t \in Int : t = lead'[l].step
    BY <1>n, <1>r, <2>1 DEF GoesOn, Starts
  <2>4. /\ lead'[l].status # "absent" /\ (r >= 1 => t >= 1)
        /\ Loadable(l)' => t = n + 1
    <3>1. CASE n + 1 \in PlanOf(l)
      BY <1>2, <1>n, <2>1, <2>2, <2>3, <3>1 DEF GoesOn, Workable
    <3>2. CASE n + 1 \notin PlanOf(l)
      <4>1. lead'[l].status = "complete" /\ lead'[l].due = "none" /\ Starts(w, l)
        BY <1>n, <2>1, <3>2 DEF GoesOn
      <4> QED
        BY <1>r, <2>3, <4>1 DEF Loadable, Workable, Starts
    <3> QED
      BY <3>1, <3>2
  <2>5. ClearFrom(l, n + 1)'
    <3>1. n + 1 \in Int /\ n <= n + 1
      OBVIOUS
    <3>2. ClearFrom(l, n + 1)
      <4>1. CASE Counted(w, l)
        BY <1>1, <1>n, <4>1 DEF HeldAsked
      <4>2. CASE ~Counted(w, l)
        <5>1. ClearFrom(l, n)
          BY <1>3, <4>2
        <5> QED
          BY <1>2, <3>1, <5>1, ClearGrows
      <4> QED
        BY <4>1, <4>2
    <3> QED
      BY <1>11, <2>1, <2>2, <3>1, <3>2
  <2>6. RowAsked(l)'
    BY <1>1, <1>6, <1>r, <2>1, <2>2, <2>3, <2>4 DEF RowAsked, MayMoveBack
  <2>7. RowClear(l)'
    <3>1. ~lead'[l].touched => ClearFrom(l, 1)'
      BY <1>3, <1>11, <2>1, <2>2 DEF RowClear
    <3>2. Loadable(l)' => ClearFrom(l, lead[l].step)'
      BY <2>3, <2>4, <2>5 DEF ClearFrom
    <3> QED
      BY <3>1, <3>2 DEF RowClear
  <2> QED
    BY <1>10, <2>1, <2>6, <2>7
<1> QED
  BY <1>14, <1>15, <1>16, <1>17, <1>18 DEF Handles

LEMMA RepeatQuiet ==
    ASSUME RepeatInv, TypeOK', Quiet
    PROVE  AskedOnce'
<1>0. /\ TypeOK /\ Loaded
      /\ UNCHANGED <<campaign, lead, performed, resets>>
      /\ faults' \in {faults, faults + 1}
      /\ Lapses' \in {Lapses, Lapses + 1} /\ Lapses \in Nat
      /\ faults' = faults + 1 => Lapses' = Lapses + 1
      /\ \A l \in Leads, n \in Steps : performed[l][n] \in Nat
  <2>1. /\ TypeOK /\ Loaded
        /\ UNCHANGED <<campaign, lead, performed, resets>>
        /\ faults' \in {faults, faults + 1}
    BY DEF RepeatInv, SessionInv, SafetyInv, Quiet
  <2> QED
    BY <2>1, RepeatTyped, LapsesGrow
<1>1. \A l \in Leads, n \in Steps : performed[l][n] <= Lapses =>
                                    performed'[l][n] <= Lapses'
  BY <1>0
<1>2. \A l \in Leads : StatusOf(l)' = StatusOf(l)
  BY <1>0 DEF StatusOf
<1>3. \A l \in Leads, n \in Steps : performed[l][n] <= 1 + Lapses =>
                                    performed'[l][n] <= 1 + Lapses'
  BY <1>0
<1>4. \A l \in Leads, i \in Int : ClearFrom(l, i) => ClearFrom(l, i)'
  BY <1>1 DEF ClearFrom
<1>5. ASSUME NEW l \in Leads PROVE RowAsked(l)'
  BY <1>0, <1>2, <1>3 DEF RepeatInv, AskedOnce, RowAsked, MayMoveBack
\* A fault clears every lead.
<1>6. ASSUME NEW l \in Leads, NEW i \in Int, faults' = faults + 1
      PROVE  ClearFrom(l, i)'
  BY <1>0, <1>6, AllClear
\* A session that drops a counted action loses it to a fault, or with the
\* campaign.
<1>7. ASSUME NEW l \in Leads, \A w \in Workers : ~Counted(w, l)'
      PROVE  RowClear(l)'
  <2>1. lead[l].step \in Int /\ (Loadable(l)' <=> Loadable(l))
    BY <1>0, RepeatTyped DEF Loadable
  <2>2. CASE faults' = faults + 1
    <3>1. ClearFrom(l, 1)' /\ \A i \in Int : ClearFrom(l, i)'
      BY <1>6, <2>2
    <3> QED
      BY <1>0, <2>1, <3>1 DEF RowClear
  <2>3. CASE StatusOf(l) = "deleted"
    BY <1>0, <2>3 DEF RepeatInv, AskedOnce, RowAsked, RowClear
  <2>4. CASE faults' # faults + 1 /\ StatusOf(l) # "deleted"
    <3>1. \A w \in Workers : ~Counted(w, l)
      BY <1>7, <2>4 DEF Quiet, Drops, Counted
    <3>2. RowClear(l)
      BY <3>1 DEF RepeatInv, AskedOnce
    <3> QED
      BY <1>0, <1>4, <2>1, <3>2 DEF RowClear
  <2> QED
    BY <2>2, <2>3, <2>4
<1>8. ASSUME NEW w \in Workers, NEW l \in worker'[w].todo
      PROVE  HeldAsked(w, l)'
  <2>1. /\ l \in worker[w].todo /\ l \in Leads
        /\ worker'[w].seen[l] = worker[w].seen[l]
        /\ StepOf(w, l)' = StepOf(w, l)
        /\ lead'[l] = lead[l]
    BY <1>0, RepeatTyped DEF Quiet, Drops, Rests, Holds, StepOf
  <2>2. HeldAsked(w, l)
    BY <2>1 DEF RepeatInv, AskedOnce
  <2>3. lead'[l].status = "absent" => StatusOf(l)' = "deleted"
    BY <1>2, <2>1, <2>2 DEF HeldAsked
  <2>n. PICK n \in Int : n = StepOf(w, l) + 1
    BY <1>0, <2>1, RepeatTyped DEF StepOf, FromOne
  <2>s. PICK s \in Int : s = worker[w].seen[l].step
    BY <1>0, <2>1, RepeatTyped
  <2>r. PICK r \in Int : r = lead[l].step
    BY <1>0, <2>1, RepeatTyped
  <2>4. CASE faults' # faults + 1 /\ (worker'[w] = worker[w] \/ ~Counted(w, l))
    <3>1. Counted(w, l)' <=> Counted(w, l)
      BY <2>4 DEF Counted, Quiet, Drops, Rests
    <3>2. IF Counted(w, l) THEN ClearFrom(l, n)'
          ELSE ClearFrom(l, s)' /\ (lead[l].status # "absent" => ClearFrom(l, r)')
      BY <1>4, <2>1, <2>2, <2>n, <2>s, <2>r DEF HeldAsked
    <3>3. IF Counted(w, l) THEN ClearFrom(l, StepOf(w, l) + 1)'
          ELSE /\ ClearFrom(l, worker[w].seen[l].step)'
               /\ lead'[l].status # "absent" => ClearFrom(l, lead[l].step)'
      BY <2>1, <3>2, <2>n, <2>s, <2>r DEF ClearFrom
    <3> QED
      BY <2>3, <3>1, <3>3 DEF HeldAsked
  <2>5. CASE faults' = faults + 1
    <3>1. ClearFrom(l, n)' /\ ClearFrom(l, s)' /\ ClearFrom(l, r)'
      BY <1>6, <2>1, <2>5
    <3>2. /\ ClearFrom(l, StepOf(w, l) + 1)'
          /\ ClearFrom(l, worker[w].seen[l].step)'
          /\ ClearFrom(l, lead[l].step)'
      BY <2>1, <3>1, <2>n, <2>s, <2>r DEF ClearFrom
    <3> QED
      BY <2>3, <3>2 DEF HeldAsked
  <2>6. CASE faults' # faults + 1 /\ worker'[w] # worker[w] /\ Counted(w, l)
    BY <1>0, <2>6 DEF Quiet, Drops, Counted
  <2> QED
    BY <2>4, <2>5, <2>6
<1> QED
  BY <1>5, <1>7, <1>8 DEF AskedOnce

LEMMA NextRepeat ==
    ASSUME ~SlowSessions
    PROVE  RepeatInv /\ [Next]_vars => RepeatInv'
<1> SUFFICES ASSUME RepeatInv, [Next]_vars PROVE RepeatInv'
  OBVIOUS
<1>0. TypeOK /\ Loaded /\ TypeOK' /\ Loaded' /\ SessionInv /\ SessionInv'
  BY NextSession DEF RepeatInv, SessionInv, SafetyInv
<1>1. ASSUME NEW w \in Workers, Loads(w) PROVE AskedOnce'
  <2>1. /\ UNCHANGED <<lead, campaign, performed, faults, resets>>
        /\ OthersStay(w)
        /\ worker[w].pc = "locked" /\ worker'[w].cur = {}
        /\ worker'[w].todo \subseteq Leads
        /\ \A l \in worker'[w].todo :
              /\ lead[l].status \in Workable /\ StatusOf(l) = "active"
              /\ worker'[w].seen[l].step = lead[l].step
              /\ lead[l].due = "now" \/ lead[l].step = 0
    BY <1>1 DEF Loads
  <2>2. \A v \in Workers : worker[v].cur = {} /\ worker'[v].cur = {}
    BY <1>0, <2>1, OneHolder DEF SessionInv, Loaded, OthersStay
  <2>3. /\ \A l \in Leads : StatusOf(l)' = StatusOf(l) /\ (Loadable(l)' = Loadable(l))
        /\ Lapses' = Lapses
        /\ \A l \in Leads, i \in Int : ClearFrom(l, i)' <=> ClearFrom(l, i)
    <3>1. Lapses' = Lapses
      BY <1>0, <2>1, LapsesGrow
    <3> QED
      BY <2>1, <3>1 DEF StatusOf, ClearFrom, Loadable
  <2>4. ASSUME NEW l \in Leads PROVE RowAsked(l)' /\ RowClear(l)'
    <3>1. RowAsked(l) /\ RowClear(l)
      BY <2>2 DEF RepeatInv, AskedOnce, Counted
    <3> QED
      BY <2>1, <2>3, <3>1 DEF RowAsked, RowClear, ClearFrom, MayMoveBack
  <2>5. ASSUME NEW l \in worker'[w].todo PROVE HeldAsked(w, l)'
    <3>1. /\ RowClear(l) /\ l \in Leads
          /\ lead[l].status # "absent" /\ lead[l].step \in Int
      BY <1>0, <2>1, <2>2, RepeatTyped
      DEF RepeatInv, AskedOnce, Counted, Workable
    <3>2. Loadable(l)
      BY <2>1 DEF Loadable
    <3>3. ClearFrom(l, lead[l].step)
      BY <3>1, <3>2 DEF RowClear
    <3>4. ~Counted(w, l)' /\ worker'[w].seen[l].step = lead[l].step
      BY <2>1, <2>2 DEF Counted
    <3>5. /\ ClearFrom(l, lead[l].step)'
          /\ ClearFrom(l, worker[w].seen[l].step)'
      BY <2>1, <2>3, <3>3, <3>4 DEF ClearFrom
    <3> QED
      BY <2>1, <3>1, <3>4, <3>5 DEF HeldAsked
  <2>6. \A v \in Workers \ {w} : worker'[v].todo = {}
    BY <1>0, <2>1, OneHolder DEF SessionInv, OthersStay
  <2> QED
    BY <2>4, <2>5, <2>6 DEF AskedOnce
<1>2. ASSUME NEW l \in Leads, TimePasses(l) PROVE AskedOnce'
  <2>1. /\ UNCHANGED <<worker, campaign, performed, faults, resets>>
        /\ \A k \in Leads \ {l} : lead'[k] = lead[k]
        /\ lead[l].due = "later" /\ lead'[l].due = "now"
        /\ lead'[l].status = lead[l].status /\ lead'[l].step = lead[l].step
        /\ SameRow(l)
    BY <1>0, <1>2, TimeRows DEF TimePasses, TimeFrame
  <2>2. /\ \A k \in Leads : StatusOf(k)' = StatusOf(k)
        /\ Lapses' = Lapses
    BY <1>0, <2>1, LapsesGrow DEF StatusOf
  <2>3. \A k \in Leads : /\ Loadable(k)' => Loadable(k)
                         /\ lead'[k].status = lead[k].status
                         /\ lead'[k].step = lead[k].step
                         /\ lead'[k].touched = lead[k].touched
    BY <2>1 DEF Loadable, SameRow
  <2>4. \A k \in Leads : RowAsked(k)' /\ (RowClear(k) => RowClear(k)')
    BY <2>1, <2>2, <2>3, RowKept
  <2>5. \A k \in Leads : (\A w \in Workers : ~Counted(w, k)) => RowClear(k)'
    BY <2>4 DEF RepeatInv, AskedOnce
  <2>6. \A w \in Workers : \A k \in worker[w].todo :
           IF lead'[k].status = "absent" THEN StatusOf(k)' = "deleted"
           ELSE lead'[k].step = lead[k].step /\ lead[k].status # "absent"
    BY <1>0, <2>2, <2>3, RepeatTyped DEF RepeatInv, AskedOnce, HeldAsked
  <2> QED
    BY <2>1, <2>2, <2>4, <2>5, <2>6, RepeatRows
<1>3. AskedOnce'
  BY <1>0, <1>1, <1>2, NextShape, RepeatQuiet, RepeatHandles, RepeatUser
<1> QED
  BY <1>0, <1>3 DEF RepeatInv

LEMMA InitRepeat == Init => RepeatInv
<1> SUFFICES ASSUME Init PROVE AskedOnce
  BY InitSession DEF RepeatInv
<1>1. /\ \A w \in Workers : worker[w].todo = {}
      /\ \A l \in Leads, n \in Steps : performed[l][n] = 0
      /\ \A l \in Leads : StatusOf(l) = "draft"
  BY ConstantsAssumption DEF Init, Idle, StatusOf
<1>2. \A l \in Leads : lead[l].status = "absent" \/ lead[l].step = 1
  BY NewRows DEF Init
<1>3. Lapses = 0
  BY DEF Init, Lapses
<1>4. \A l \in Leads, i \in Int : ClearFrom(l, i)
  BY <1>1, <1>3 DEF ClearFrom
<1>5. \A l \in Leads : RowAsked(l) /\ RowClear(l)
  BY <1>1, <1>2, <1>3, <1>4 DEF RowAsked, RowClear
<1> QED
  BY <1>1, <1>5 DEF AskedOnce

\* While sessions end before their locks expire, and as long as nobody
\* restarts a campaign or moves a lead by hand, LinkedIn sees each step of a
\* lead once, and once more for each fault at most: through starts, pauses and
\* deletions at any moment, late delays, edits of a status and any number of
\* workers, no second session takes up a step that the first has acted on.
THEOREM NoRepeatCorrect ==
    ASSUME ~SlowSessions, PatchSteps = {}, "restart" \notin UserOps
    PROVE  Spec => []NoRepeatWithoutFault
<1>1. RepeatInv => NoRepeatWithoutFault
  <2>1. Lapses = faults
    BY DEF Lapses, MayMoveBack
  <2> QED
    BY <2>1 DEF RepeatInv, AskedOnce, RowAsked, NoRepeatWithoutFault
<1> QED
  BY <1>1, InitRepeat, NextRepeat, PTL DEF Spec

RepeatsAreCounted ==
    \A l \in Leads, n \in Steps : performed[l][n] <= 1 + faults + resets

\* While sessions end before their locks expire, a restart or an edit by hand
\* costs each lead one repetition at most, as a fault does, also when it moves
\* leads that a session holds or has just acted on.
THEOREM RepeatsCorrect ==
    ASSUME ~SlowSessions
    PROVE  Spec => []RepeatsAreCounted
<1>1. RepeatInv => RepeatsAreCounted
  <2> SUFFICES ASSUME RepeatInv, NEW l \in Leads, NEW n \in Steps
               PROVE  performed[l][n] <= 1 + faults + resets
    BY DEF RepeatsAreCounted
  <2>1. performed[l][n] <= 1 + Lapses
    BY DEF RepeatInv, AskedOnce, RowAsked
  <2>2. /\ faults \in Nat /\ resets \in Nat /\ performed[l][n] \in Nat
    BY RepeatTyped DEF RepeatInv, SessionInv, SafetyInv
  <2> QED
    BY <2>1, <2>2 DEF Lapses
<1> QED
  BY <1>1, InitRepeat, NextRepeat, PTL DEF Spec

-----------------------------------------------------------------------------
(* CampaignSession implements LeadWalk.                                     *)

WalkInv == OrderInv /\ RepeatInv

LEMMA InitWalks == Init => Walk!Init
BY DEF Init, Walk!Init, Walk!Steps, Steps

LEMMA RequestWalks ==
    ASSUME TypeOK, UserStep
    PROVE  [Walk!Next]_(Walk!vars)
<1>0. /\ faults \in Nat /\ resets \in Nat /\ NumSteps \in Nat
      /\ UNCHANGED <<faults, performed>>
      /\ \A l \in Leads : lead[l].step \in 0..NumSteps
  BY RepeatTyped DEF UserStep
<1>1. ASSUME NEW c \in Campaigns, RestartCampaign(c)
      PROVE  Walk!Next
  <2>1. Walk!StartOver(Restarted(c))
    <3>1. resets' = resets + 1 /\ faults' = faults
      BY <1>0, <1>1 DEF RestartCampaign
    <3>2. (faults + resets)' = faults + resets + 1
      BY <1>0, <3>1
    <3> QED
      BY <1>0, <1>1, <3>2 DEF RestartCampaign, Walk!StartOver
  <2>2. Restarted(c) \in SUBSET Leads
    BY DEF Restarted, Of
  <2> QED
    BY <2>1, <2>2 DEF Walk!Next
<1>2. ASSUME NEW l \in Leads, NEW st, NEW n \in PatchSteps \cup {lead[l].step},
             PatchLead(l, st, n)
      PROVE  Walk!Next
  <2>1. n \in 0..NumSteps
    BY <1>0, ConstantsAssumption
  <2>2. (faults + resets)' = faults + resets + 1
    BY <1>0, <1>2 DEF PatchLead
  <2>3. CASE n = lead[l].step
    <3>1. Walk!Lapse
      BY <1>0, <1>2, <2>2, <2>3 DEF PatchLead, Walk!Lapse
    <3> QED
      BY <3>1 DEF Walk!Next
  <2>4. CASE n # lead[l].step
    <3>1. Walk!SetTo(l, n)
      BY <1>0, <1>2, <2>2, <2>4 DEF PatchLead, Walk!SetTo
    <3> QED
      BY <2>1, <3>1 DEF Walk!Next
  <2> QED
    BY <2>3, <2>4
<1>3. ASSUME UNCHANGED <<resets, passed>> PROVE UNCHANGED Walk!vars
  BY <1>0, <1>3 DEF Walk!vars
<1> QED
  BY <1>1, <1>2, <1>3
  DEF UserStep, StartCampaign, PauseCampaign, DeleteCampaign, AddLead,
      DeleteStep, Reconnect, UserOpens

\* LinkedIn is asked only for the step a session holds, which is clear.
LEMMA ActWalks ==
    ASSUME WalkInv, NEW w \in Workers, NEW l \in Leads, Acts(w, l)
    PROVE  [Walk!Next]_(Walk!vars)
<1>0. /\ SessionInv /\ TypeOK /\ l \in worker[w].todo
      /\ faults \in Nat /\ resets \in Nat
  BY RepeatTyped DEF WalkInv, OrderInv, SessionInv, SafetyInv, Loaded, Acts
<1>1. /\ StepOf(w, l) \in Steps /\ worker[w].seen[l].step \in 0..NumSteps
      /\ StepOf(w, l) = FromOne(worker[w].seen[l].step)
      /\ performed[l][StepOf(w, l)] \in Nat
  BY <1>0, HeldTypes, RepeatTyped
<1>2. Walk!ComesTo(l, StepOf(w, l))
  BY <1>0, HeldBehind DEF WalkInv, Walk!ComesTo
<1>3. performed[l][StepOf(w, l)] <= faults + resets
  <2>1. ClearFrom(l, worker[w].seen[l].step)
    BY <1>0 DEF WalkInv, RepeatInv, AskedOnce, HeldAsked, Counted, Acts
  <2>2. StepOf(w, l) >= worker[w].seen[l].step
    BY <1>1, ConstantsAssumption DEF FromOne
  <2>3. performed[l][StepOf(w, l)] <= Lapses
    BY <1>1, <2>1, <2>2 DEF ClearFrom
  <2> QED
    BY <1>0, <1>1, <2>3 DEF Lapses
<1>4. UNCHANGED <<resets, passed>>
  BY DEF Acts, RowOnly
<1>5. (faults + resets)' \in {faults + resets, faults + resets + 1}
  BY <1>0, <1>4 DEF Acts
<1>6. CASE performed' = performed
  <2>1. UNCHANGED Walk!vars \/ Walk!Lapse
    BY <1>4, <1>5, <1>6 DEF Walk!vars, Walk!Lapse
  <2> QED
    BY <2>1 DEF Walk!Next
<1>7. CASE performed' = [performed EXCEPT ![l] = [performed[l] EXCEPT
                           ![StepOf(w, l)] = performed[l][StepOf(w, l)] + 1]]
  <2>1. Walk!Ask(l, StepOf(w, l))
    BY <1>2, <1>3, <1>4, <1>5, <1>7 DEF Walk!Ask
  <2> QED
    BY <1>1, <2>1 DEF Walk!Next, Walk!Steps, Steps
<1> QED
  BY <1>6, <1>7 DEF Acts

\* A lead leaves behind the step it stands at, or none.
LEMMA HandlesWalks ==
    ASSUME WalkInv, NEW w \in Workers, NEW l \in Leads, Handles(w, l)
    PROVE  [Walk!Next]_(Walk!vars)
<1>0. SessionInv /\ l \in worker[w].todo
  BY HandlerIsBusy DEF WalkInv, OrderInv, SessionInv
<1>1. CASE Skips(w, l) \/ Succeeds(w, l)
  <2>1. /\ passed' = [passed EXCEPT ![l] = passed[l] \cup {StepOf(w, l)}]
        /\ UNCHANGED <<faults, resets, performed>>
    BY <1>1 DEF Skips, Succeeds, Recorded, Finishes, RowOnly, GoesOn, PassesStep
  <2>2. Walk!ComesTo(l, StepOf(w, l)) /\ StepOf(w, l) \in Steps
    BY <1>0, HeldBehind, HeldTypes DEF WalkInv, Walk!ComesTo
  <2>3. Walk!LeaveBehind(l, StepOf(w, l))
    BY <2>1, <2>2 DEF Walk!LeaveBehind
  <2> QED
    BY <2>2, <2>3 DEF Walk!Next, Walk!Steps, Steps
<1>2. CASE \/ Begins(w, l) \/ PassesOver(w, l) \/ Retries(w, l)
           \/ Stops(w, l) \/ Suspends(w, l) \/ Errs(w, l)
  <2>1. UNCHANGED <<faults, resets, performed, passed>>
    BY <1>2 DEF Begins, PassesOver, Retries, Stops, Suspends, Errs, Recorded,
       Finishes, RowOnly, Unpassed
  <2> QED
    BY <2>1 DEF Walk!vars
<1> QED
  BY <1>1, <1>2, ActWalks DEF Handles

LEMMA StepWalks == WalkInv /\ [Next]_vars => [Walk!Next]_(Walk!vars)
<1> SUFFICES ASSUME WalkInv, [Next]_vars PROVE [Walk!Next]_(Walk!vars)
  OBVIOUS
<1>0. TypeOK /\ Loaded /\ faults \in Nat /\ resets \in Nat
  BY RepeatTyped DEF WalkInv, OrderInv, SessionInv, SafetyInv
<1>1. CASE Quiet
  <2>1. UNCHANGED <<resets, performed, passed>> /\ faults' \in {faults, faults + 1}
    BY <1>1 DEF Quiet
  <2>2. \/ (faults + resets)' = faults + resets
        \/ (faults + resets)' = faults + resets + 1
    <3>1. PICK f \in Nat, r \in Nat : f = faults /\ r = resets
      BY <1>0
    <3>2. (faults' = f \/ faults' = f + 1) /\ resets' = r
      BY <2>1, <3>1
    <3> QED
      BY <3>1, <3>2
  <2>3. UNCHANGED Walk!vars \/ Walk!Lapse
    BY <2>1, <2>2 DEF Walk!vars, Walk!Lapse
  <2> QED
    BY <2>3 DEF Walk!Next
<1>2. ASSUME NEW w \in Workers, Loads(w) PROVE UNCHANGED Walk!vars
  BY <1>2 DEF Loads, Walk!vars
<1>3. ASSUME NEW l \in Leads, TimePasses(l) PROVE UNCHANGED Walk!vars
  BY <1>3 DEF TimePasses, TimeFrame, Walk!vars
<1> QED
  BY <1>0, <1>1, <1>2, <1>3, NextShape, HandlesWalks, RequestWalks

\* While sessions end before their locks expire, and as long as nobody gives
\* a lead a final status by hand, the engine implements LeadWalk: whatever
\* sessions, redeliveries, crashes, late delays, restarts and edits meet,
\* LinkedIn is asked for the steps of a lead in their order, and for one of
\* them again only after a fault or when its owner moved a lead.
THEOREM WalkCorrect ==
    ASSUME ~SlowSessions, PatchStatuses \subseteq Workable
    PROVE  Spec => WalksInOrder
<1>1. Init => WalkInv
  BY InitOrder, InitRepeat DEF WalkInv
<1>2. WalkInv /\ [Next]_vars => WalkInv'
  BY NextOrder, NextRepeat DEF WalkInv
<1> QED
  BY <1>1, <1>2, InitWalks, StepWalks, PTL DEF Spec, WalksInOrder, Walk!Spec
==============================================================================
