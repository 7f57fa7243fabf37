---------------------------- MODULE Planning_proof ----------------------------
(***************************************************************************)
(* Theorems about the parts of localization and planning, for any value of *)
(* the constants: the relocalization, with any fixes, limits and number of *)
(* scans; the box of the local map; the frozen controller with its bridge; *)
(* the trajectory guard, and the paths and the seed of the path service.   *)
(*                                                                         *)
(* The relocalization comes first.  A handler composes operators on a      *)
(* record of the session, the node and the process (Here).  The inductive  *)
(* invariant, Good, says of such a record that confirmations count the     *)
(* submaps that agreed, that these and the scans in hand are of this       *)
(* session and have none in common, and that only a node that never began  *)
(* a session may begin one by itself.                                      *)
(***************************************************************************)
EXTENDS MCPlanning, FiniteSetTheorems, SequenceTheorems, NaturalsInduction,
        WellFoundedInduction, TLAPS

SessionStates == {"WAITING", "SEARCHING", "TRACKING", "LOST", "FAILED"}
Submaps == SUBSET Nat
Messages == [gen : Nat, id : Nat, kind : {"loaded", "fatal", "found", "poor", "error"},
             fix : Fixes]
Jobs == [gen : Nat, id : Nat, scans : Submaps]
Sessions ==
    [gen : Nat, state : SessionStates, transform : SUBSET Fixes, candidate : SUBSET Fixes,
     confirmations : Nat, failures : Nat, lastJob : Int, evidence : SUBSET Submaps]
Nodes ==
    [fresh : SUBSET Inputs, armed : BOOLEAN, seen : Nat, collected : Nat, scans : Submaps,
     auto : BOOLEAN, ready : BOOLEAN, workerReady : BOOLEAN, job : Jobs, jobs : Nat,
     late : SUBSET {"search", "track", "job", "load"}, born : Nat]
Processes == [at : {"none", "loading", "idle", "dead"}, requests : Seq(Jobs),
              responses : Seq(Messages)]
Places == [s : Sessions, n : Nodes, p : Processes]

\* The confirmations of a session are as many submaps.
Counted(s) ==
    /\ IsFiniteSet(s.evidence) /\ s.confirmations = Cardinality(s.evidence)
    /\ s.state = "TRACKING" => s.confirmations >= Required

\* The scans of the session that went into a submap or will.
Taken(n) == n.born + 1 .. n.collected

Apart(s, n) ==
    /\ n.born <= n.collected /\ n.collected <= n.seen /\ n.scans \subseteq Taken(n)
    /\ n.job # NoJob => n.job.scans # {} /\ n.job.scans \subseteq Taken(n)
    /\ \A e \in s.evidence : /\ e # {} /\ e \subseteq Taken(n)
                             /\ e \cap n.scans = {} /\ e \cap n.job.scans = {}
                             /\ \A f \in s.evidence : e # f => e \cap f = {}

\* auto_start is consumed by the first session.
First(x) == x.n.auto => /\ x.s.state = "WAITING" /\ x.p.at = "none"
                        /\ x.n.job = NoJob

Good(x) == x \in Places /\ Counted(x.s) /\ Apart(x.s, x.n) /\ First(x)

Gone(x) == x.s.state \in {"LOST", "FAILED"}

\* y is good if x is, and does not bring back a session that is over.
Follows(x, y) == Good(y) /\ (Gone(x) => Gone(y))

\* What is announced as ready is tracked.
Announced(x) == x.n.ready => x.s.state = "TRACKING"

Inv == Good(Here) /\ Announced(Here) /\ asked \in Nat
-----------------------------------------------------------------------------
(* The session. *)

\* What every call of the session does but the one that counts an answer: it
\* may forget submaps, and does not bring back a session that is over.
Settles(s, t) ==
    /\ t \in Sessions /\ Counted(t) /\ t.evidence \subseteq s.evidence
    /\ s.state \in {"LOST", "FAILED"} => t.state \in {"LOST", "FAILED"}

\* A session that begins has counted nothing.
LEMMA BeginSettles ==
    ASSUME NEW s \in Sessions
    PROVE  /\ Begin(s) \in Sessions /\ Counted(Begin(s))
           /\ Begin(s).evidence = {} /\ Begin(s).state = "SEARCHING"
<1> DEFINE n == s.gen + 1
           t == [FreshSession EXCEPT !.gen = n, !.state = "SEARCHING"]
<1>1. n \in Nat BY DEF Sessions
<1>2. t \in Sessions /\ t.evidence = {} /\ t.state = "SEARCHING" /\ t.confirmations = 0
  <2>1. -1 \in Int OBVIOUS
  <2>2. PICK k \in Int : k = -1 BY <2>1
  <2>3. FreshSession = [gen |-> 0, state |-> "WAITING", transform |-> {}, candidate |-> {},
                        confirmations |-> 0, failures |-> 0, lastJob |-> k, evidence |-> {}]
    BY <2>2 DEF FreshSession
  <2> HIDE DEF n
  <2> QED BY <1>1, <2>3 DEF Sessions, SessionStates
<1>3. Counted(t) BY <1>2, FS_EmptySet DEF Counted
<1>4. Begin(s) = t BY DEF Begin
<1> QED BY <1>2, <1>3, <1>4

\* A session that is ended keeps its count.
LEMMA InvalidateSettles ==
    ASSUME NEW s \in Sessions, Counted(s), NEW state \in {"LOST", "FAILED"}
    PROVE  Settles(s, Invalidate(s, state)) /\ Invalidate(s, state).state = state
<1> DEFINE n == s.gen + 1
           t == [s EXCEPT !.gen = n, !.state = state, !.transform = {}]
<1>1. n \in Nat BY DEF Sessions
<1>2. /\ t \in Sessions /\ t.evidence = s.evidence /\ t.state = state
      /\ t.confirmations = s.confirmations
  <2> HIDE DEF n
  <2> QED BY <1>1 DEF Sessions, SessionStates
<1>3. Invalidate(s, state) = t BY DEF Invalidate
<1> QED BY <1>2, <1>3 DEF Counted, Settles

\* An expired session ends, and nothing else does.
LEMMA TickSettles ==
    ASSUME NEW s \in Sessions, Counted(s), NEW late
    PROVE  /\ Settles(s, TickSession(s, late))
           /\ ~Active(s) => TickSession(s, late) = s
BY InvalidateSettles DEF TickSession, Settles, Active

\* A refusal forgets the submaps while searching, and only a tracked session
\* may end of it.
LEMMA RejectSettles ==
    ASSUME NEW s \in Sessions, Counted(s)
    PROVE  Settles(s, Reject(s)) /\ (~Active(s) => Reject(s).state = s.state)
<1>1. CASE s.state # "TRACKING"
  <2> DEFINE t == [s EXCEPT !.confirmations = 0, !.candidate = {}, !.evidence = {}]
  <2>1. /\ t \in Sessions /\ t.evidence = {} /\ t.state = s.state
        /\ t.confirmations = 0
    BY DEF Sessions
  <2>2. Reject(s) = t BY <1>1 DEF Reject
  <2> QED BY <1>1, <2>1, <2>2, FS_EmptySet DEF Counted, Settles
<1>2. CASE s.state = "TRACKING"
  <2> DEFINE t == [s EXCEPT !.failures = @ + 1]
  <2>1. t \in Sessions /\ Counted(t) /\ t.evidence = s.evidence /\ t.state = s.state
    <3> DEFINE n == s.failures + 1
    <3>1. n \in Nat BY DEF Sessions
    <3>2. t = [s EXCEPT !.failures = n] OBVIOUS
    <3> HIDE DEF n, t
    <3> QED BY <3>1, <3>2 DEF Sessions, Counted
  <2>2. Reject(s) \in {t, Invalidate(t, "LOST")}
    BY <1>2 DEF Reject
  <2>3. Settles(t, Invalidate(t, "LOST"))
    BY <2>1, InvalidateSettles
  <2> QED BY <1>2, <2>1, <2>2, <2>3 DEF Settles, Active
<1> QED BY <1>1, <1>2

\* An answer counts its submap once.
LEMMA WeighCounts ==
    ASSUME NEW s \in Sessions, Counted(s), Active(s), NEW a \in Messages,
           NEW scans \in Submaps, scans \notin s.evidence
    PROVE  /\ Weigh(s, a, scans) \in Sessions /\ Counted(Weigh(s, a, scans))
           /\ Weigh(s, a, scans).evidence \subseteq s.evidence \cup {scans}
<1> DEFINE searching == s.state = "SEARCHING"
           agreed == [s EXCEPT !.candidate = {a.fix},
                         !.confirmations = IF searching THEN @ + 1 ELSE @,
                         !.evidence = IF searching THEN @ \cup {scans} ELSE @]
           tracked == [agreed EXCEPT !.transform = {a.fix}, !.failures = 0,
                                     !.state = "TRACKING"]
<1>1. a.fix \in Fixes BY DEF Messages
<1>2. /\ IsFiniteSet(s.evidence \cup {scans})
      /\ Cardinality(s.evidence \cup {scans}) = s.confirmations + 1
  BY FS_AddElement DEF Counted
<1>3. s.confirmations \in Nat BY DEF Sessions
<1>4. /\ agreed \in Sessions /\ agreed.state = s.state
      /\ agreed.evidence \subseteq s.evidence \cup {scans}
      /\ agreed.confirmations = IF searching THEN s.confirmations + 1 ELSE s.confirmations
      /\ agreed.evidence = IF searching THEN s.evidence \cup {scans} ELSE s.evidence
  <2> DEFINE n == IF searching THEN s.confirmations + 1 ELSE s.confirmations
             E == IF searching THEN s.evidence \cup {scans} ELSE s.evidence
  <2>1. n \in Nat BY <1>3
  <2>2. E \in SUBSET Submaps BY DEF Sessions
  <2>3. agreed = [s EXCEPT !.candidate = {a.fix}, !.confirmations = n, !.evidence = E]
    OBVIOUS
  <2>4. /\ agreed \in Sessions /\ agreed.state = s.state
        /\ agreed.confirmations = n /\ agreed.evidence = E
    <3> HIDE DEF n, E, agreed
    <3> QED BY <1>1, <2>1, <2>2, <2>3 DEF Sessions
  <2> QED BY <2>4
<1>5. IsFiniteSet(agreed.evidence) /\ agreed.confirmations = Cardinality(agreed.evidence)
  BY <1>2, <1>4 DEF Counted
<1>6. /\ tracked \in Sessions /\ tracked.evidence = agreed.evidence
      /\ tracked.confirmations = agreed.confirmations
  BY <1>1, <1>4 DEF Sessions, SessionStates
<1>7. CASE searching /\ agreed.confirmations < Required
  <2>1. Counted(agreed) BY <1>4, <1>5, <1>7 DEF Counted
  <2>2. Weigh(s, a, scans) \in {agreed, Reject(s)} BY <1>7 DEF Weigh
  <2> HIDE DEF agreed
  <2> QED BY <1>4, <2>1, <2>2, RejectSettles DEF Settles
<1>8. CASE ~(searching /\ agreed.confirmations < Required)
  <2>1. agreed.confirmations >= Required
    BY <1>3, <1>4, <1>8, RelocalizationAssumption DEF Counted, Active
  <2>2. Counted(tracked) BY <1>5, <1>6, <2>1 DEF Counted
  <2>3. Weigh(s, a, scans) \in {tracked, Reject(s)} BY <1>8 DEF Weigh
  <2> HIDE DEF agreed, tracked
  <2> QED BY <1>4, <1>6, <2>2, <2>3, RejectSettles DEF Settles
<1> QED BY <1>7, <1>8

\* Only a session that is active, and of the generation of the answer, counts
\* it.
LEMMA AcceptCounts ==
    ASSUME NEW s \in Sessions, Counted(s), NEW late, NEW a \in Messages,
           NEW scans \in Submaps, scans \notin s.evidence
    PROVE  LET t == Accept(s, late, a, scans)
           IN  /\ t \in Sessions /\ Counted(t)
               /\ t.evidence \subseteq s.evidence \cup {scans}
               /\ ~Active(s) => t = s
<1> DEFINE u == TickSession(s, late)
           v == [u EXCEPT !.lastJob = a.id]
<1>1. u \in Sessions /\ Counted(u) /\ u.evidence \subseteq s.evidence /\ (~Active(s) => u = s)
  BY TickSettles DEF Settles
<1>2. a.id \in Int BY DEF Messages
<1>3. v \in Sessions /\ Counted(v) /\ v.evidence = u.evidence /\ (Active(v) <=> Active(u))
  BY <1>1, <1>2 DEF Sessions, Counted, Active
<1>4. CASE a.gen # u.gen \/ a.id <= u.lastJob \/ ~Active(u)
  BY <1>1, <1>4 DEF Accept
<1>5. CASE ~(a.gen # u.gen \/ a.id <= u.lastJob \/ ~Active(u))
  <2>1. Accept(s, late, a, scans) = Weigh(v, a, scans) BY <1>5 DEF Accept
  <2>2. Active(s) BY <1>1, <1>5
  <2> HIDE DEF u, v
  <2>3. /\ Weigh(v, a, scans) \in Sessions /\ Counted(Weigh(v, a, scans))
        /\ Weigh(v, a, scans).evidence \subseteq v.evidence \cup {scans}
    BY <1>1, <1>3, <1>5, WeighCounts
  <2> QED BY <1>1, <1>3, <2>1, <2>2, <2>3
<1> QED BY <1>4, <1>5
-----------------------------------------------------------------------------
(* The records of the node and of its process. *)

\* What is not there is of no type in particular.
LEMMA NoneTypes == NoJob \in Jobs /\ NoProcess \in Processes /\ NoJob.scans = {}
BY DEF NoJob, NoProcess, Jobs, Submaps, Processes

\* A session of no more submaps can be put in the place of another.
LEMMA SessionReplaced ==
    ASSUME NEW x, Good(x), NEW t, Settles(x.s, t), x.n.auto => t.state = "WAITING"
    PROVE  Follows(x, [x EXCEPT !.s = t])
<1> DEFINE y == [x EXCEPT !.s = t]
<1>1. y \in Places /\ y.s = t /\ y.n = x.n /\ y.p = x.p
  BY DEF Good, Places, Settles
<1>2. Apart(t, x.n) BY DEF Good, Apart, Settles
<1>3. Counted(t) BY DEF Settles
<1> HIDE DEF y
<1>4. Good(y) BY <1>1, <1>2, <1>3 DEF Good, First
<1>5. Gone(x) => Gone(y) BY <1>1 DEF Gone, Settles
<1> QED BY <1>4, <1>5 DEF Follows, y

\* The node may take scans and change what no submap depends on.
LEMMA NodeReplaced ==
    ASSUME NEW x, Good(x), NEW m \in Nodes, m.born = x.n.born, m.collected = x.n.collected,
           m.scans = x.n.scans, m.job = x.n.job, m.auto = x.n.auto, m.seen >= x.n.seen
    PROVE  Follows(x, [x EXCEPT !.n = m])
<1> DEFINE y == [x EXCEPT !.n = m]
<1>1. y \in Places /\ y.s = x.s /\ y.n = m /\ y.p = x.p
  BY DEF Good, Places
<1>2. Apart(x.s, m)
  <2>1. m.collected \in Nat /\ m.seen \in Nat /\ x.n.seen \in Nat BY DEF Good, Places, Nodes
  <2> QED BY <2>1 DEF Good, Apart, Taken
<1> HIDE DEF y
<1>3. Good(y) BY <1>1, <1>2 DEF Good, First
<1> QED BY <1>1, <1>3 DEF Follows, Gone, y

\* The process does what it likes once it has been started.
LEMMA ProcessReplaced ==
    ASSUME NEW x, Good(x), NEW q \in Processes, x.n.auto => q.at = "none"
    PROVE  Follows(x, [x EXCEPT !.p = q])
<1> DEFINE y == [x EXCEPT !.p = q]
<1>1. y \in Places /\ y.s = x.s /\ y.n = x.n /\ y.p = q
  BY DEF Good, Places
<1> HIDE DEF y
<1>2. Good(y) BY <1>1 DEF Good, First
<1> QED BY <1>1, <1>2 DEF Follows, Gone, y

\* An input that comes or goes.
LEMMA InputsFollow ==
    ASSUME NEW x, Good(x), NEW i \in Inputs
    PROVE  /\ Follows(x, With(x, i)) /\ Follows(x, Without(x, i))
           /\ \A y \in {With(x, i), Without(x, i)} : /\ y.s = x.s /\ y.n.ready = x.n.ready
                                                     /\ y.n.auto = x.n.auto
<1> DEFINE m == [x.n EXCEPT !.fresh = @ \cup {i}]
           k == [x.n EXCEPT !.fresh = @ \ {i}]
<1>1. x.n \in Nodes /\ x.n.seen \in Nat /\ x \in Places BY DEF Good, Places, Nodes
<1>2. /\ m \in Nodes /\ m.born = x.n.born /\ m.collected = x.n.collected
      /\ m.scans = x.n.scans /\ m.job = x.n.job /\ m.auto = x.n.auto /\ m.seen = x.n.seen
      /\ m.ready = x.n.ready
  BY <1>1 DEF Nodes
<1>3. /\ k \in Nodes /\ k.born = x.n.born /\ k.collected = x.n.collected
      /\ k.scans = x.n.scans /\ k.job = x.n.job /\ k.auto = x.n.auto /\ k.seen = x.n.seen
      /\ k.ready = x.n.ready
  BY <1>1 DEF Nodes
<1>4. With(x, i) = [x EXCEPT !.n = m] /\ Without(x, i) = [x EXCEPT !.n = k]
  BY DEF With, Without
<1> HIDE DEF m, k
<1>5. Follows(x, With(x, i)) /\ Follows(x, Without(x, i))
  BY <1>1, <1>2, <1>3, <1>4, NodeReplaced
<1>6. \A y \in {With(x, i), Without(x, i)} : y.s = x.s /\ (y.n = m \/ y.n = k)
  BY <1>1, <1>4 DEF Places
<1> QED BY <1>2, <1>3, <1>5, <1>6

\* The readiness is a flag of the node.
LEMMA ReadyFollows ==
    ASSUME NEW x, Good(x), NEW r \in BOOLEAN
    PROVE  LET y == [x EXCEPT !.n.ready = r]
           IN  Follows(x, y) /\ y.s = x.s /\ y.n.ready = r
<1> DEFINE m == [x.n EXCEPT !.ready = r]
<1>1. x.n \in Nodes /\ x.n.seen \in Nat /\ x \in Places BY DEF Good, Places, Nodes
<1>2. /\ m \in Nodes /\ m.born = x.n.born /\ m.collected = x.n.collected
      /\ m.scans = x.n.scans /\ m.job = x.n.job /\ m.auto = x.n.auto /\ m.seen = x.n.seen
      /\ m.ready = r
  BY <1>1 DEF Nodes
<1>3. [x EXCEPT !.n.ready = r] = [x EXCEPT !.n = m] OBVIOUS
<1> HIDE DEF m
<1>4. Follows(x, [x EXCEPT !.n = m]) BY <1>1, <1>2, NodeReplaced
<1>5. [x EXCEPT !.n = m].s = x.s /\ [x EXCEPT !.n = m].n = m BY <1>1 DEF Places
<1> QED BY <1>2, <1>3, <1>4, <1>5

\* What follows what follows.
LEMMA FollowsOn ==
    ASSUME NEW x, NEW y, NEW z, Follows(x, y), Follows(y, z)
    PROVE  Follows(x, z)
BY DEF Follows

\* Ending a session that is active, or of a node that has begun one.
LEMMA EndFollows ==
    ASSUME NEW x, Good(x), ~x.n.auto, NEW state \in {"LOST", "FAILED"}
    PROVE  /\ Follows(x, [x EXCEPT !.s = Invalidate(@, state)])
           /\ Gone([x EXCEPT !.s = Invalidate(@, state)])
<1>1. x.s \in Sessions /\ Counted(x.s) /\ x \in Places BY DEF Good, Places
<1>2. Settles(x.s, Invalidate(x.s, state)) /\ Invalidate(x.s, state).state = state
  BY <1>1, InvalidateSettles
<1>3. [x EXCEPT !.s = Invalidate(@, state)].s = Invalidate(x.s, state)
  BY <1>1 DEF Places
<1> QED BY <1>2, <1>3, SessionReplaced DEF Gone

\* A node with an active session has begun one.
LEMMA ActiveBegan == ASSUME NEW x, Good(x), Active(x.s) PROVE ~x.n.auto
BY DEF Good, First, Active

\* A lost input ends an active session and the readiness.
LEMMA RevokeFollows ==
    ASSUME NEW x, Good(x)
    PROVE  Follows(x, Revoke(x)) /\ ~Revoke(x).n.ready /\ ~Active(Revoke(x).s)
<1> DEFINE y == IF Active(x.s) THEN [x EXCEPT !.s = Invalidate(@, "LOST")] ELSE x
           z == [y EXCEPT !.n.ready = FALSE]
<1>1. Follows(x, y) /\ ~Active(y.s)
  <2>1. CASE Active(x.s)
    <3>1. Follows(x, y) /\ Gone(y) BY <2>1, ActiveBegan, EndFollows
    <3> QED BY <3>1 DEF Gone, Active
  <2>2. CASE ~Active(x.s) BY <2>2 DEF Follows
  <2> QED BY <2>1, <2>2
<1>2. Revoke(x) = z
  <2>1. x \in Places BY DEF Good
  <2> QED BY <2>1 DEF Revoke, Places
<1> HIDE DEF y
<1>3. Good(y) BY <1>1 DEF Follows
<1>4. Follows(y, z) /\ z.s = y.s /\ z.n.ready = FALSE
  BY <1>3, ReadyFollows
<1> HIDE DEF z
<1> QED BY <1>1, <1>2, <1>4, FollowsOn
-----------------------------------------------------------------------------
(* Jobs. *)

\* A stopped process leaves no job.
LEMMA StopFollows ==
    ASSUME NEW x, Good(x)
    PROVE  LET y == StopWorker(x)
           IN  /\ Follows(x, y) /\ y.s = x.s /\ y.p = NoProcess /\ y.n.job = NoJob
               /\ y.n.auto = x.n.auto /\ y.n.seen = x.n.seen /\ y.n.ready = x.n.ready
<1> DEFINE m == [x.n EXCEPT !.workerReady = FALSE, !.job = NoJob, !.late = @ \ {"job", "load"}]
           y == StopWorker(x)
<1>1. x.n \in Nodes /\ x \in Places BY DEF Good, Places
<1>2. /\ m \in Nodes /\ m.born = x.n.born /\ m.collected = x.n.collected
      /\ m.scans = x.n.scans /\ m.job = NoJob /\ m.auto = x.n.auto /\ m.seen = x.n.seen
      /\ m.ready = x.n.ready
  BY <1>1, NoneTypes DEF Nodes
<1>3. y = [x EXCEPT !.p = NoProcess, !.n = m] BY DEF StopWorker
<1> HIDE DEF m, y
<1>4. y \in Places /\ y.s = x.s /\ y.n = m /\ y.p = NoProcess
  BY <1>1, <1>2, <1>3, NoneTypes DEF Places
<1>5. Apart(x.s, m) BY <1>2, NoneTypes DEF Good, Apart, Taken
<1>6. Good(y)
  BY <1>2, <1>4, <1>5 DEF Good, First, NoProcess
<1> QED BY <1>2, <1>4, <1>6 DEF Follows, Gone, y

\* A session that begins, of the operator or of the node, has nothing in hand.
LEMMA StartGood ==
    ASSUME NEW x, Good(x)
    PROVE  Good(Start(x)) /\ ~Start(x).n.ready
<1> DEFINE z == StopWorker(x)
           m == [z.n EXCEPT !.auto = FALSE, !.scans = {}, !.collected = x.n.seen,
                            !.born = x.n.seen, !.ready = FALSE, !.late = {}]
           q == [z.p EXCEPT !.at = "loading"]
           y == Start(x)
<1>1. Good(z) /\ z.s = x.s /\ z.p = NoProcess /\ z.n.job = NoJob /\ z.n.seen = x.n.seen
  BY StopFollows DEF Follows
<1>2. z \in Places /\ z.n \in Nodes /\ x.s \in Sessions /\ x.n.seen \in Nat
  BY <1>1 DEF Good, Places, Nodes
<1>3. y = [z EXCEPT !.s = Begin(x.s), !.p = q, !.n = m] BY DEF Start
<1> HIDE DEF z
<1>4. /\ m \in Nodes /\ m.born = x.n.seen /\ m.collected = x.n.seen /\ m.scans = {}
      /\ m.job = NoJob /\ m.auto = FALSE /\ m.seen = x.n.seen /\ m.ready = FALSE
  BY <1>1, <1>2 DEF Nodes, Submaps
<1>5. q \in Processes BY <1>1, NoneTypes DEF Processes
<1>6. Begin(x.s) \in Sessions /\ Counted(Begin(x.s)) /\ Begin(x.s).evidence = {}
  BY <1>2, BeginSettles
<1> HIDE DEF m, q, y
<1>7. y \in Places /\ y.s = Begin(x.s) /\ y.n = m /\ y.p = q
  BY <1>2, <1>3, <1>4, <1>5, <1>6 DEF Places
<1>8. Apart(Begin(x.s), m) BY <1>2, <1>4, <1>6 DEF Apart, Taken
<1>9. Good(y) BY <1>4, <1>6, <1>7, <1>8 DEF Good, First
<1> QED BY <1>4, <1>7, <1>9 DEF y

\* After an answer the scans in hand are dropped.
LEMMA AnsweredFollows ==
    ASSUME NEW x, Good(x)
    PROVE  Follows(x, Answered(x)) /\ Answered(x).p = x.p
<1> DEFINE m == [x.n EXCEPT !.scans = {}, !.collected = x.n.seen]
           y == Answered(x)
<1>1. /\ x \in Places /\ x.n \in Nodes
      /\ {x.n.seen, x.n.collected, x.n.born} \subseteq Nat /\ x.n.collected <= x.n.seen
  BY DEF Good, Places, Nodes, Apart
<1>2. /\ m \in Nodes /\ m.born = x.n.born /\ m.collected = x.n.seen /\ m.scans = {}
      /\ m.job = x.n.job /\ m.auto = x.n.auto /\ m.seen = x.n.seen
  BY <1>1 DEF Nodes, Submaps
<1>3. y = [x EXCEPT !.n = m] BY DEF Answered
<1> HIDE DEF m, y
<1>4. y \in Places /\ y.s = x.s /\ y.n = m /\ y.p = x.p
  BY <1>1, <1>2, <1>3 DEF Places
<1>5. Taken(x.n) \subseteq Taken(m) BY <1>1, <1>2 DEF Taken
<1>6. Apart(x.s, m)
  <2>1. m.born <= m.collected /\ m.collected <= m.seen
    BY <1>1, <1>2 DEF Good, Apart
  <2> QED BY <1>2, <1>5, <2>1 DEF Good, Apart
<1>7. Good(y) BY <1>2, <1>4, <1>6 DEF Good, First
<1> QED BY <1>4, <1>7 DEF Follows, Gone, y

\* The answer to the job in hand, whose submap has no scan of another, is
\* counted at most once.
LEMMA CountedAnswer ==
    ASSUME NEW x, Good(x), x.n.job # NoJob,
           NEW z \in Places, Counted(z.s), Gone(x) => Gone(z),
           z.s.evidence \subseteq x.s.evidence \cup {x.n.job.scans},
           z.n.job = NoJob, z.n.born = x.n.born, z.n.collected = x.n.collected,
           z.n.seen = x.n.seen, ~z.n.auto
    PROVE  Follows(x, Answered(z)) /\ Answered(z).p = z.p
<1> DEFINE K == x.n.job.scans
           t == z.s
           m == [z.n EXCEPT !.scans = {}, !.collected = z.n.seen]
           y == Answered(z)
<1>1. /\ z.n \in Nodes
      /\ {x.n.seen, x.n.collected, x.n.born} \subseteq Nat
      /\ x.n.born <= x.n.collected /\ x.n.collected <= x.n.seen
  BY DEF Good, Places, Nodes, Apart
<1>2. /\ m \in Nodes /\ m.born = x.n.born /\ m.collected = x.n.seen /\ m.scans = {}
      /\ m.job = NoJob /\ ~m.auto /\ m.seen = x.n.seen
  BY <1>1 DEF Nodes, Submaps
<1>3. y = [z EXCEPT !.n = m]
  BY <1>1 DEF Answered
<1> HIDE DEF m, y
<1>4. y \in Places /\ y.s = t /\ y.n = m /\ y.p = z.p
  BY <1>1, <1>2, <1>3 DEF Places
<1>5. Taken(x.n) \subseteq Taken(m) BY <1>1, <1>2 DEF Taken
<1>6. \A e \in t.evidence : e # {} /\ e \subseteq Taken(m)
  BY <1>5 DEF Good, Apart
<1>7. \A e, f \in t.evidence : e # f => e \cap f = {}
  <2>1. \A e \in x.s.evidence : e \cap K = {}
    BY DEF Good, Apart
  <2>2. \A e, f \in x.s.evidence : e # f => e \cap f = {}
    BY DEF Good, Apart
  <2> HIDE DEF K
  <2>3. t.evidence \subseteq x.s.evidence \cup {K} BY DEF K
  <2> QED BY <2>1, <2>2, <2>3
<1>8. Apart(t, m)
  <2>1. m.born <= m.collected /\ m.collected <= m.seen BY <1>1, <1>2
  <2> QED BY <1>2, <1>6, <1>7, <2>1, NoneTypes DEF Apart
<1>9. Good(y) BY <1>2, <1>4, <1>8 DEF Good, First
<1> QED BY <1>4, <1>9 DEF Follows, Gone, y
-----------------------------------------------------------------------------
(* The steps of the node's loop. *)

\* A message of the process, whatever it answers, leaves the process as it is.
LEMMA ResultsFollow ==
    ASSUME NEW x, Good(x), x.p.at # "none"
    PROVE  Follows(x, ReceiveResults(x)) /\ ReceiveResults(x).p.at = x.p.at
<1> DEFINE a == Head(x.p.responses)
           rest == Tail(x.p.responses)
           q == [x.p EXCEPT !.responses = rest]
           y == [x EXCEPT !.p.responses = Tail(@)]
           job == x.n.job
           m == [x.n EXCEPT !.job = NoJob, !.late = @ \ {"job"}]
           z == [y EXCEPT !.n.job = NoJob, !.n.late = @ \ {"job"}]
           s == Accept(z.s, z.n.late, a, job.scans)
           r == ReceiveResults(x)
<1>0. /\ x \in Places /\ x.n \in Nodes /\ x.p \in Processes /\ x.s \in Sessions
      /\ Counted(x.s) /\ job \in Jobs /\ x.n.seen \in Nat
      /\ ~x.n.auto
  BY DEF Good, Places, Nodes, First
<1>1. CASE x.p.responses = <<>>
  BY <1>1 DEF ReceiveResults, Follows
<1>2. CASE x.p.responses # <<>>
  <2>1. a \in Messages /\ rest \in Seq(Messages)
    BY <1>0, <1>2 DEF Processes
  <2>2. q \in Processes /\ q.at = x.p.at
    <3> HIDE DEF rest
    <3> QED BY <1>0, <2>1 DEF Processes
  <2>3. y = [x EXCEPT !.p = q] OBVIOUS
  <2> HIDE DEF q, y
  <2>4. Follows(x, y) /\ y.s = x.s /\ y.n = x.n /\ y.p = q /\ y \in Places
    BY <1>0, <2>2, <2>3, ProcessReplaced DEF Places
  <2>5. Good(y) BY <2>4 DEF Follows
  <2>6. /\ m \in Nodes /\ m.born = x.n.born /\ m.collected = x.n.collected
        /\ m.scans = x.n.scans /\ m.job = NoJob /\ ~m.auto /\ m.seen = x.n.seen
    BY <1>0, NoneTypes DEF Nodes
  <2>7. z = [y EXCEPT !.n = m] BY <2>4
  <2> HIDE DEF m, z
  <2>8. z \in Places /\ z.s = x.s /\ z.n = m /\ z.p = q
    BY <1>0, <2>2, <2>4, <2>6, <2>7 DEF Places
  <2>9. Good(z)
    <3>1. Apart(x.s, m) BY <2>6, NoneTypes DEF Good, Apart, Taken
    <3> QED BY <1>0, <2>6, <2>8, <3>1 DEF Good, First
  <2>10. Follows(x, z) BY <2>8, <2>9 DEF Follows, Gone
  <2>11. CASE a.kind = "loaded"
    <3> DEFINE k == [x.n EXCEPT !.workerReady = TRUE, !.late = @ \ {"load"}]
    <3>1. /\ k \in Nodes /\ k.born = x.n.born /\ k.collected = x.n.collected
          /\ k.scans = x.n.scans /\ k.job = x.n.job /\ k.auto = x.n.auto
          /\ k.seen = x.n.seen
      BY <1>0 DEF Nodes
    <3>2. r = [y EXCEPT !.n = k] BY <1>2, <2>3, <2>4, <2>11 DEF ReceiveResults, q, y
    <3> HIDE DEF k, r
    <3>3. Follows(y, r) BY <1>0, <2>4, <2>5, <3>1, <3>2, NodeReplaced
    <3>4. r.p = q BY <2>4, <3>1, <3>2 DEF Places
    <3> QED BY <2>2, <2>4, <3>3, <3>4, FollowsOn DEF r
  <2>12. CASE a.kind = "fatal"
    <3>1. r = [y EXCEPT !.s = Invalidate(@, "FAILED")]
      BY <1>2, <2>12 DEF ReceiveResults, y
    <3> HIDE DEF r
    <3>2. Follows(y, r) BY <1>0, <2>4, <2>5, <3>1, EndFollows
    <3>3. r.p = q BY <2>4, <3>1 DEF Places
    <3> QED BY <2>2, <2>4, <3>2, <3>3, FollowsOn DEF r
  <2>13. CASE /\ a.kind \notin {"loaded", "fatal"}
              /\ job = NoJob \/ <<a.gen, a.id>> # <<job.gen, job.id>>
    <3>1. r = y BY <1>2, <2>13 DEF ReceiveResults, y
    <3> QED BY <2>2, <2>4, <3>1
  <2>14. CASE /\ a.kind \notin {"loaded", "fatal"}
              /\ ~(job = NoJob \/ <<a.gen, a.id>> # <<job.gen, job.id>>)
    <3>1. CASE ~Healthy(x.n) \/ "job" \in x.n.late
      <4>1. r = [z EXCEPT !.s = Invalidate(@, "LOST")]
        BY <1>2, <2>14, <3>1 DEF ReceiveResults, y, z
      <4> HIDE DEF r
      <4>2. Follows(z, r) BY <2>6, <2>8, <2>9, <4>1, EndFollows
      <4>3. r.p = q BY <2>8, <4>1 DEF Places
      <4> QED BY <2>2, <2>10, <4>2, <4>3, FollowsOn DEF r
    <3>2. CASE ~(~Healthy(x.n) \/ "job" \in x.n.late) /\ a.kind = "error"
      <4> DEFINE w == [z EXCEPT !.s = Reject(@)]
      <4>1. r = Answered(w)
        BY <1>2, <2>14, <3>2 DEF ReceiveResults, y, z
      <4>2. Settles(z.s, Reject(z.s)) BY <1>0, <2>8, RejectSettles
      <4>3. Follows(z, w) BY <2>6, <2>8, <2>9, <4>2, SessionReplaced
      <4>4. w.p = q BY <2>8 DEF Places
      <4> HIDE DEF w, r
      <4>5. Follows(w, r) /\ r.p = q
        BY <4>1, <4>3, <4>4, AnsweredFollows DEF Follows
      <4> QED BY <2>2, <2>10, <4>3, <4>5, FollowsOn DEF r
    <3>3. CASE ~(~Healthy(x.n) \/ "job" \in x.n.late) /\ a.kind # "error"
      <4> DEFINE l == IF s.state = "TRACKING" /\ s.failures = 0 /\ s.transform = {a.fix}
                      THEN z.n.late \ {"search", "track"} ELSE z.n.late
      <4>1. r = Answered([z EXCEPT !.s = s, !.n.late = l])
        BY <1>2, <2>14, <3>3 DEF ReceiveResults, y, z
      <4>2. l \in SUBSET {"search", "track", "job", "load"}
        BY <2>6, <2>8 DEF Nodes
      <4>3. job.scans \in Submaps /\ job.scans \notin x.s.evidence
        <5>1. job # NoJob BY <2>14
        <5>2. job.scans # {} /\ \A e \in x.s.evidence : e \cap job.scans = {}
          BY <5>1 DEF Good, Apart
        <5>3. job.scans \in Submaps BY <1>0 DEF Jobs
        <5> QED BY <5>2, <5>3
      <4>4. /\ s \in Sessions /\ Counted(s) /\ s.evidence \subseteq x.s.evidence \cup {job.scans}
            /\ ~Active(x.s) => s = x.s
        <5> DEFINE K == job.scans
        <5>1. s = Accept(x.s, z.n.late, a, K) BY <2>8
        <5>2. K \in Submaps /\ K \notin x.s.evidence BY <4>3
        <5>3. x.s \in Sessions /\ Counted(x.s) BY <1>0
        <5> HIDE DEF s, a, K
        <5>4. /\ s \in Sessions /\ Counted(s) /\ s.evidence \subseteq x.s.evidence \cup {K}
              /\ ~Active(x.s) => s = x.s
          BY <2>1, <5>1, <5>2, <5>3, AcceptCounts
        <5> QED BY <5>4 DEF K
      <4>5. Gone(x) => s.state \in {"LOST", "FAILED"}
        BY <4>4 DEF Gone, Active
      <4>6. job # NoJob BY <2>14
      <4> DEFINE n == [z.n EXCEPT !.late = l]
                 w == [z EXCEPT !.s = s, !.n.late = l]
      <4>7. /\ n \in Nodes /\ n.job = NoJob /\ n.born = x.n.born
            /\ n.collected = x.n.collected /\ n.seen = x.n.seen /\ ~n.auto
        BY <2>6, <2>8, <4>2 DEF Nodes
      <4>8. w = [z EXCEPT !.s = s, !.n = n] BY <2>8 DEF Places
      <4> HIDE DEF r, s, l, n
      <4>9. w \in Places /\ w.s = s /\ w.n = n /\ w.p = z.p
        BY <2>8, <4>4, <4>7, <4>8 DEF Places
      <4>10. r = Answered(w) BY <4>1
      <4> HIDE DEF w
      <4>11. Follows(x, r) /\ r.p = z.p
        BY <4>4, <4>5, <4>6, <4>7, <4>9, <4>10, CountedAnswer DEF Gone
      <4> QED BY <2>2, <2>8, <4>11 DEF r
    <3> QED BY <3>1, <3>2, <3>3
  <2> QED BY <2>11, <2>12, <2>13, <2>14
<1> QED BY <1>1, <1>2

\* Deadlines end a session.
LEMMA PoliceFollows ==
    ASSUME NEW x, Good(x)
    PROVE  Follows(x, Police(x))
<1> DEFINE y == ReceiveResults(x)
<1>1. CASE x.p.at = "none" BY <1>1 DEF Police, Follows
<1>2. CASE x.p.at # "none"
  <2>1. Follows(x, y) /\ Good(y) /\ y.p.at = x.p.at
    BY <1>2, ResultsFollow DEF Follows
  <2> HIDE DEF y
  <2>2. ~y.n.auto BY <1>2, <2>1 DEF Good, First
  <2>3. Police(x) \in {y, [y EXCEPT !.s = Invalidate(@, "FAILED")]}
    BY <1>2 DEF Police, y
  <2>4. Follows(y, [y EXCEPT !.s = Invalidate(@, "FAILED")])
    BY <2>1, <2>2, EndFollows
  <2> QED BY <2>1, <2>3, <2>4, FollowsOn
<1> QED BY <1>1, <1>2

\* A job takes scans no other submap has.
LEMMA SubmitFollows ==
    ASSUME NEW x, Good(x), ~x.n.auto, NEW K \in Submaps, K # {},
           K \subseteq x.n.born + 1 .. x.n.seen,
           \A e \in x.s.evidence : e \cap K = {}
    PROVE  Follows(x, Submit(x, K))
<1> DEFINE id == x.n.jobs + 1
           job == [gen |-> x.s.gen, id |-> id, scans |-> K]
           m == [x.n EXCEPT !.jobs = id, !.job = job, !.collected = x.n.seen]
           q == [x.p EXCEPT !.requests = Append(@, job)]
           y == Submit(x, K)
<1>1. /\ x \in Places /\ x.n \in Nodes /\ x.p \in Processes /\ x.s.gen \in Nat /\ id \in Nat
      /\ {x.n.seen, x.n.collected, x.n.born} \subseteq Nat
      /\ x.n.born <= x.n.collected /\ x.n.collected <= x.n.seen
  BY DEF Good, Places, Nodes, Sessions, Apart
<1>2. y = [x EXCEPT !.n = m, !.p = q] BY DEF Submit
<1>3. job \in Jobs /\ job.scans = K
  <2> HIDE DEF id
  <2> QED BY <1>1 DEF Jobs
<1> HIDE DEF id, job
<1>4. /\ m \in Nodes /\ m.born = x.n.born /\ m.collected = x.n.seen
      /\ m.scans = x.n.scans /\ m.job = job /\ m.auto = x.n.auto /\ m.seen = x.n.seen
  BY <1>1, <1>3 DEF Nodes
<1>5. q \in Processes
  <2> DEFINE R == Append(x.p.requests, job)
  <2>1. R \in Seq(Jobs) BY <1>1, <1>3 DEF Processes
  <2>2. q = [x.p EXCEPT !.requests = R] OBVIOUS
  <2> HIDE DEF R, q
  <2> QED BY <1>1, <2>1, <2>2 DEF Processes
<1> HIDE DEF m, q, y
<1>6. y \in Places /\ y.s = x.s /\ y.n = m /\ y.p = q
  BY <1>1, <1>2, <1>4, <1>5 DEF Places
<1>7. Taken(x.n) \subseteq Taken(m) /\ K \subseteq Taken(m)
  BY <1>1, <1>4 DEF Taken
<1>8. Apart(x.s, m)
  <2>1. m.born <= m.collected /\ m.collected <= m.seen BY <1>1, <1>4
  <2>2. m.scans \subseteq Taken(m) BY <1>4, <1>7 DEF Good, Apart
  <2>3. m.job.scans # {} /\ m.job.scans \subseteq Taken(m) BY <1>3, <1>4, <1>7
  <2>4. \A e \in x.s.evidence : /\ e # {} /\ e \subseteq Taken(m)
                                /\ e \cap m.scans = {} /\ e \cap m.job.scans = {}
                                /\ \A f \in x.s.evidence : e # f => e \cap f = {}
    BY <1>3, <1>4, <1>7 DEF Good, Apart
  <2> QED BY <2>1, <2>2, <2>3, <2>4 DEF Apart
<1>9. Good(y) BY <1>4, <1>6, <1>8 DEF Good, First
<1> QED BY <1>6, <1>9 DEF Follows, Gone, y

\* A new scan joins the others in hand, or is a submap by itself.
LEMMA CollectFollows ==
    ASSUME NEW x, Good(x), NEW due \in BOOLEAN
    PROVE  Follows(x, Collect(x, due))
<1> DEFINE c == x.n.seen
           S == x.n.scans \cup {c}
           m == [x.n EXCEPT !.scans = S, !.collected = c]
           y == [x EXCEPT !.n.scans = @ \cup {c}, !.n.collected = c]
<1>1. CASE ~Active(x.s)
  BY <1>1, StopFollows DEF Collect
<1>2. CASE Active(x.s) /\ ~Collects(x)
  BY <1>2 DEF Collect, Follows
<1>3. CASE Active(x.s) /\ Collects(x)
  <2>1. /\ x \in Places /\ x.n \in Nodes /\ ~x.n.auto
        /\ {c, x.n.collected, x.n.born} \subseteq Nat
        /\ x.n.born <= x.n.collected /\ x.n.collected < c
    BY <1>3, ActiveBegan DEF Good, Places, Nodes, Apart, Collects
  <2>2. c \notin Taken(x.n) /\ c \in x.n.born + 1 .. c BY <2>1 DEF Taken
  <2>3. \A e \in x.s.evidence : e \cap {c} = {}
    BY <2>2 DEF Good, Apart
  <2>4. {c} \in Submaps BY <2>1 DEF Submaps
  <2>5. Follows(x, Submit(x, {c}))
    BY <2>1, <2>2, <2>3, <2>4, SubmitFollows
  <2>6. S \in Submaps BY <2>1 DEF Nodes, Submaps
  <2>7. x.n.scans \subseteq Taken(x.n) /\ \A e \in x.s.evidence : e \cap x.n.scans = {}
    BY DEF Good, Apart
  <2>8. S # {} /\ S \subseteq x.n.born + 1 .. c /\ \A e \in x.s.evidence : e \cap S = {}
    <3>1. Taken(x.n) \subseteq x.n.born + 1 .. c BY <2>1 DEF Taken
    <3> QED BY <2>2, <2>3, <2>7, <3>1
  <2>9. y = [x EXCEPT !.n = m] OBVIOUS
  <2> HIDE DEF S
  <2>10. /\ m \in Nodes /\ m.born = x.n.born /\ m.collected = c
         /\ m.scans = S /\ m.job = x.n.job /\ m.auto = x.n.auto /\ m.seen = c
    BY <2>1, <2>6 DEF Nodes
  <2> HIDE DEF m, y
  <2>11. y \in Places /\ y.s = x.s /\ y.n = m /\ y.p = x.p
    BY <2>1, <2>9, <2>10 DEF Places
  <2>12. Taken(x.n) \subseteq Taken(m) /\ Taken(m) = x.n.born + 1 .. c
    BY <2>1, <2>10 DEF Taken
  <2>13. Apart(x.s, m)
    <3>1. m.born <= m.collected /\ m.collected <= m.seen BY <2>1, <2>10
    <3>2. m.scans \subseteq Taken(m) BY <2>8, <2>10, <2>12
    <3>3. m.job # NoJob => m.job.scans # {} /\ m.job.scans \subseteq Taken(m)
      BY <2>10, <2>12 DEF Good, Apart
    <3>4. \A e \in x.s.evidence : /\ e # {} /\ e \subseteq Taken(m)
                                  /\ e \cap m.scans = {} /\ e \cap m.job.scans = {}
                                  /\ \A f \in x.s.evidence : e # f => e \cap f = {}
      BY <2>8, <2>10, <2>12 DEF Good, Apart
    <3> QED BY <3>1, <3>2, <3>3, <3>4 DEF Apart
  <2>14. Good(y) /\ Follows(x, y)
    BY <2>10, <2>11, <2>13 DEF Good, First, Follows, Gone
  <2>15. Follows(y, Submit(y, y.n.scans))
    BY <2>1, <2>6, <2>8, <2>10, <2>11, <2>14, SubmitFollows
  <2>16. Follows(x, Submit(y, y.n.scans)) BY <2>14, <2>15, FollowsOn
  <2>17. Collect(x, due) \in {x, Submit(x, {c}), y, Submit(y, y.n.scans)}
    BY <1>3 DEF Collect, y, S
  <2> QED BY <2>5, <2>14, <2>16, <2>17 DEF Follows
<1> QED BY <1>1, <1>2, <1>3
-----------------------------------------------------------------------------
(* The actions. *)

\* What every action does: it keeps the invariant, and does not bring back a
\* session that is over unless the operator asks.
Kept == Inv' /\ (Gone(Here) /\ asked' = asked => Gone(Here)')

\* An action that replaces the records by those of y.
LEMMA BecomeKept ==
    ASSUME Good(Here), NEW y, Become(y), Good(y), Announced(y), asked' \in Nat,
           Gone(Here) /\ asked' = asked => Gone(y)
    PROVE  Kept
<1>1. y = [s |-> y.s, n |-> y.n, p |-> y.p] BY DEF Good, Places
<1>2. Here' = y BY <1>1 DEF Become, Here
<1>3. Good(Here') /\ Announced(Here') BY <1>2
<1>4. Gone(Here)' = Gone(y) BY <1>2 DEF Gone
<1>5. Inv' = (Good(Here') /\ Announced(Here') /\ asked' \in Nat)
  BY DEF Inv, Good, Announced, Counted, Apart, First, Taken
<1> QED BY <1>3, <1>4, <1>5 DEF Kept

\* The callbacks of the node keep it.
LEMMA CallbacksKept ==
    ASSUME Inv, ReceiveBase \/ ReceiveFcu \/ ReceiveOdom \/ ReceiveCloud
    PROVE  Kept
<1>0. asked' \in Nat BY DEF Inv, ReceiveBase, ReceiveFcu, ReceiveOdom, ReceiveCloud
<1>1. Good(Here) /\ Announced(Here) BY DEF Inv
<1>2. ASSUME NEW i \in Inputs
      PROVE  LET x == With(Here, i) IN Good(x) /\ Announced(x) /\ (Gone(Here) => Gone(x))
  BY <1>1, <1>2, InputsFollow DEF Follows, Announced
<1>3. ASSUME NEW x, Good(x), Gone(Here) => Gone(x)
      PROVE  Good(Revoke(x)) /\ Announced(Revoke(x)) /\ (Gone(Here) => Gone(Revoke(x)))
  BY <1>3, RevokeFollows DEF Follows, Announced
<1>4. ASSUME NEW i \in Inputs
      PROVE  LET x == Revoke(Without(Here, i))
             IN  Good(x) /\ Announced(x) /\ (Gone(Here) => Gone(x))
  <2>1. Good(Without(Here, i)) /\ (Gone(Here) => Gone(Without(Here, i)))
    BY <1>1, <1>4, InputsFollow DEF Follows
  <2> QED BY <1>3, <2>1
<1>5. Inputs = {"base", "fcu", "odom", "cloud"} BY DEF Inputs
<1>6. CASE ReceiveBase
  <2>1. \/ Become(With(Here, "base")) \/ Become(Revoke(Without(Here, "base")))
    BY <1>6 DEF ReceiveBase
  <2> QED BY <1>0, <1>1, <1>2, <1>4, <1>5, <2>1, BecomeKept
<1>7. CASE ReceiveFcu
  <2>1. PICK connected \in BOOLEAN, armed \in BOOLEAN :
            LET x == [Here EXCEPT !.n.armed = armed]
            IN  Become(IF ~connected THEN Revoke(Without(x, "fcu"))
                       ELSE IF armed /\ session.state = "SEARCHING" THEN Revoke(With(x, "fcu"))
                       ELSE With(x, "fcu"))
    BY <1>7 DEF ReceiveFcu
  <2> DEFINE m == [node EXCEPT !.armed = armed]
             x == [Here EXCEPT !.n.armed = armed]
  <2>2. Here \in Places /\ Here.n = node /\ node \in Nodes /\ node.seen \in Nat
    BY <1>1 DEF Good, Places, Nodes, Here
  <2>3. /\ m \in Nodes /\ m.born = node.born /\ m.collected = node.collected
        /\ m.scans = node.scans /\ m.job = node.job /\ m.auto = node.auto /\ m.seen = node.seen
        /\ m.ready = node.ready
    BY <2>2 DEF Nodes
  <2>4. x = [Here EXCEPT !.n = m] BY <2>2
  <2>5. x.s = Here.s /\ x.n = m
    <3> HIDE DEF m
    <3> QED BY <2>2, <2>3, <2>4 DEF Places
  <2> HIDE DEF m, x
  <2>6. Follows(Here, x) BY <1>1, <2>2, <2>3, <2>4, NodeReplaced
  <2>7. Good(x) /\ Announced(x) /\ (Gone(Here) => Gone(x))
    BY <1>1, <2>2, <2>3, <2>5, <2>6 DEF Follows, Announced
  <2>8. \A y \in {With(x, "fcu"), Without(x, "fcu")} :
            Good(y) /\ Announced(y) /\ (Gone(Here) => Gone(y))
    BY <1>5, <2>7, InputsFollow DEF Follows, Announced
  <2>9. \E y \in {Revoke(Without(x, "fcu")), Revoke(With(x, "fcu")), With(x, "fcu")} : Become(y)
    BY <2>1 DEF x
  <2> QED BY <1>0, <1>1, <1>3, <2>8, <2>9, BecomeKept
<1>8. CASE ReceiveOdom
  <2> DEFINE x == With(Here, "odom")
             y == [x EXCEPT !.n.ready = TRUE]
  <2>1. \/ Become(Revoke(Without(Here, "odom")))
        \/ Become(x)
        \/ Valid(x) /\ Become(y)
    BY <1>8 DEF ReceiveOdom
  <2>2. Good(x) /\ Announced(x) /\ (Gone(Here) => Gone(x)) BY <1>2, <1>5
  <2> HIDE DEF x
  <2>3. Follows(x, y) /\ y.s = x.s BY <2>2, ReadyFollows
  <2>4. Valid(x) => Announced(y) BY <2>3 DEF Valid, Announced
  <2> HIDE DEF y
  <2>5. Good(y) /\ (Gone(Here) => Gone(y)) BY <2>2, <2>3 DEF Follows
  <2> QED BY <1>0, <1>1, <1>4, <1>5, <2>1, <2>2, <2>4, <2>5, BecomeKept
<1>9. CASE ReceiveCloud
  <2> DEFINE c == node.seen + 1
             m == [node EXCEPT !.seen = c]
             x == [Here EXCEPT !.n.seen = @ + 1]
  <2>1. \/ Become(Revoke(Without(Here, "cloud")))
        \/ Become(With(x, "cloud"))
        \/ Become(Revoke(Without(x, "cloud")))
    BY <1>9 DEF ReceiveCloud
  <2>2. Here \in Places /\ Here.n = node /\ node \in Nodes /\ node.seen \in Nat /\ c \in Nat
    BY <1>1 DEF Good, Places, Nodes, Here
  <2>3. c >= node.seen BY <2>2
  <2>4. x = [Here EXCEPT !.n = m] BY <2>2
  <2> HIDE DEF c
  <2>5. /\ m \in Nodes /\ m.born = node.born /\ m.collected = node.collected
        /\ m.scans = node.scans /\ m.job = node.job /\ m.auto = node.auto /\ m.seen = c
        /\ m.ready = node.ready
    BY <2>2 DEF Nodes
  <2>6. x.s = Here.s /\ x.n = m
    <3> HIDE DEF m, x
    <3> QED BY <2>2, <2>4, <2>5 DEF Places
  <2> HIDE DEF m, x
  <2>7. Follows(Here, x) BY <1>1, <2>2, <2>3, <2>4, <2>5, NodeReplaced
  <2>8. Good(x) /\ Announced(x) /\ (Gone(Here) => Gone(x))
    BY <1>1, <2>2, <2>5, <2>6, <2>7 DEF Follows, Announced
  <2>9. \A y \in {With(x, "cloud"), Without(x, "cloud")} :
            Good(y) /\ Announced(y) /\ (Gone(Here) => Gone(y))
    BY <1>5, <2>8, InputsFollow DEF Follows, Announced
  <2> QED BY <1>0, <1>1, <1>3, <1>4, <1>5, <2>1, <2>9, BecomeKept
<1> QED BY <1>6, <1>7, <1>8, <1>9

\* The operator's request is the only one that begins another session.
LEMMA OperatorKept ==
    ASSUME Inv, Operator
    PROVE  Kept
<1>1. Good(Here) BY DEF Inv
<1>2. Become(Start(Here)) /\ asked' = asked + 1 /\ asked < MaxAsked BY DEF Operator
<1>3. Good(Start(Here)) /\ Announced(Start(Here)) BY <1>1, StartGood DEF Announced
<1>4. asked' # asked /\ asked' \in Nat BY <1>2 DEF Inv
<1> QED BY <1>1, <1>2, <1>3, <1>4, BecomeKept
\* The loop begins a session of its own only once, before there was any.
LEMMA StepKept ==
    ASSUME Inv, Step
    PROVE  Kept
<1>0. asked' = asked /\ asked' \in Nat BY DEF Inv, Step
<1>1. Good(Here) BY DEF Inv
<1>2. PICK back \in BOOLEAN, due \in BOOLEAN, readable \in BOOLEAN :
          Become(Finished(Police(Prepared(Here, back)), due, readable))
  BY DEF Step
<1> DEFINE x0 == Rewound(Here, back)
           x1 == Ticked(x0)
           x2 == Begun(x1)
           x3 == GuardInputs(x2)
           x4 == GuardArmed(x3)
           x5 == Police(x4)
           x6 == Collect(x5, due)
           x7 == Finished(x5, due, readable)
<1>3. Become(x7) BY <1>2 DEF Prepared
<1> DEFINE Fine(x) == Good(x) /\ (Gone(Here) => Gone(x))
<1>4. ASSUME NEW x, Fine(x) PROVE Fine(Revoke(x))
  BY <1>4, RevokeFollows DEF Follows
<1>5. Fine(x0)
  <2> DEFINE y == Revoke(Here)
             z == Without(y, "odom")
  <2>1. Fine(y) BY <1>1, <1>4
  <2> HIDE DEF y
  <2>2. Fine(z) BY <2>1, InputsFollow DEF Follows, Inputs
  <2> HIDE DEF z
  <2>3. Fine(Without(z, "cloud")) BY <2>2, InputsFollow DEF Follows, Inputs
  <2> QED BY <1>1, <2>3 DEF y, z, Rewound
<1> HIDE DEF x0
<1>6. Fine(x1)
  <2> DEFINE t == TickSession(x0.s, x0.n.late)
  <2>1. x0.s \in Sessions /\ Counted(x0.s) BY <1>5 DEF Good, Places
  <2>2. Settles(x0.s, t) /\ (~Active(x0.s) => t = x0.s) BY <2>1, TickSettles
  <2>3. x0.n.auto => t.state = "WAITING" BY <1>5, <2>2 DEF Good, First, Active
  <2> HIDE DEF t
  <2>4. Follows(x0, [x0 EXCEPT !.s = t]) BY <1>5, <2>2, <2>3, SessionReplaced
  <2> QED BY <1>5, <2>4 DEF Follows, t, Ticked
<1> HIDE DEF x1
<1>7. Fine(x2)
  <2>1. CASE x1.n.auto /\ CanInitialize(x1.n)
    <3>1. Good(x2) BY <1>6, <2>1, StartGood DEF Begun
    <3>2. ~Gone(x1) BY <1>6, <2>1 DEF Good, First, Gone
    <3> QED BY <1>6, <3>1, <3>2
  <2> QED BY <1>6, <2>1 DEF Begun
<1> HIDE DEF x2
<1>8. Fine(x3) BY <1>4, <1>7 DEF GuardInputs
<1> HIDE DEF x3
<1>9. Fine(x4) BY <1>4, <1>8 DEF GuardArmed
<1> HIDE DEF x4
<1>10. Fine(x5) BY <1>9, PoliceFollows DEF Follows
<1> HIDE DEF x5
<1>11. Fine(x6) BY <1>10, CollectFollows DEF Follows
<1> HIDE DEF x6
<1>12. Fine(x7) /\ Announced(x7)
  <2>1. CASE Collects(x5) /\ ~readable
    <3> DEFINE u == [x5 EXCEPT !.s = Invalidate(@, "FAILED")]
               v == [u EXCEPT !.n.ready = FALSE]
               w == [x5 EXCEPT !.s = Invalidate(@, "FAILED"), !.n.ready = FALSE]
    <3>1. ~x5.n.auto BY <1>10, <2>1, ActiveBegan DEF Collects
    <3>2. Follows(x5, u) /\ Gone(u) BY <1>10, <3>1, EndFollows
    <3>3. Good(u) BY <3>2 DEF Follows
    <3>4. v = w BY <1>10 DEF Good, Places
    <3> HIDE DEF u
    <3>5. Follows(u, v) /\ v.s = u.s /\ v.n.ready = FALSE BY <3>3, ReadyFollows
    <3>6. Good(v) /\ Gone(v) BY <3>2, <3>5 DEF Follows
    <3> HIDE DEF v, w
    <3>7. Follows(v, StopWorker(v)) /\ StopWorker(v).s = v.s BY <3>6, StopFollows
    <3>8. x7 = StopWorker(v) BY <2>1, <3>4 DEF Finished, StepFails, w
    <3>9. Good(x7) /\ Gone(x7) BY <3>6, <3>7, <3>8 DEF Follows
    <3>10. ~x7.n.ready BY <3>5, <3>6, <3>8, StopFollows
    <3> QED BY <3>9, <3>10 DEF Announced
  <2>2. CASE ~(Collects(x5) /\ ~readable)
    <3> DEFINE r == Valid(x6)
    <3>1. x7 = [x6 EXCEPT !.n.ready = r] BY <2>2 DEF Finished, Judged, x6
    <3>2. r \in BOOLEAN /\ (r => x6.s.state = "TRACKING") BY DEF Valid, Healthy
    <3> HIDE DEF r, x7
    <3>3. Follows(x6, x7) /\ x7.s = x6.s /\ x7.n.ready = r
      BY <1>11, <3>1, <3>2, ReadyFollows
    <3> QED BY <1>11, <3>2, <3>3 DEF Follows, Announced
  <2> QED BY <2>1, <2>2
<1> HIDE DEF x7
<1> QED BY <1>0, <1>1, <1>3, <1>12, BecomeKept

\* The process, and time, leave the session alone.
LEMMA OthersKept ==
    ASSUME Inv, WorkerLoads \/ WorkerAnswers \/ WorkerDies \/ GoStale \/ Expire
    PROVE  Kept
<1>0. asked' \in Nat
  BY DEF Inv, WorkerLoads, WorkerAnswers, WorkerDies, GoStale, Expire, Send
<1>1. Good(Here) /\ Announced(Here) BY DEF Inv
<1>2. /\ Here \in Places /\ Here.s = session /\ Here.n = node /\ Here.p = proc
      /\ session \in Sessions /\ node \in Nodes /\ proc \in Processes
  BY <1>1 DEF Good, Places, Here
<1>3. proc.at # "none" => ~node.auto BY <1>1, <1>2 DEF Good, First
<1>4. ASSUME NEW q \in Processes, proc' = q, UNCHANGED <<session, node, asked>>,
             proc.at # "none"
      PROVE  Kept
  <2> DEFINE y == [Here EXCEPT !.p = q]
  <2>1. Follows(Here, y) BY <1>1, <1>2, <1>3, <1>4, ProcessReplaced
  <2>2. y.s = session /\ y.n = node /\ y.p = q BY <1>2 DEF Here
  <2> HIDE DEF y
  <2>3. Become(y) BY <1>4, <2>2 DEF Become
  <2>4. Good(y) /\ (Gone(Here) => Gone(y)) BY <2>1 DEF Follows
  <2>5. Announced(y) BY <1>1, <1>2, <2>2 DEF Announced
  <2> QED BY <1>0, <1>1, <2>3, <2>4, <2>5, BecomeKept
<1>5. ASSUME NEW m \in Messages, Send(m), proc.at \in {"loading", "idle"},
             proc.at = "idle" => proc.requests # <<>>
      PROVE  Kept
  <2> DEFINE R == Append(proc.responses, m)
             Q == IF proc.at = "idle" THEN Tail(proc.requests) ELSE proc.requests
             at == IF m.kind = "fatal" THEN "dead" ELSE "idle"
             q == [proc EXCEPT !.responses = R, !.at = at, !.requests = Q]
  <2>1. R \in Seq(Messages) BY <1>2 DEF Processes
  <2>2. Q \in Seq(Jobs) BY <1>2, <1>5 DEF Processes
  <2>3. proc' = q /\ UNCHANGED <<session, node, asked>>
    BY <1>2, <1>5 DEF Send, Processes
  <2>4. at \in {"dead", "idle"} OBVIOUS
  <2> HIDE DEF R, Q, at
  <2>5. q \in Processes BY <1>2, <2>1, <2>2, <2>4 DEF Processes
  <2> HIDE DEF q
  <2> QED BY <1>4, <1>5, <2>3, <2>5
<1>6. Nowhere \in Fixes BY RelocalizationAssumption DEF Nowhere
<1>7. CASE WorkerLoads
  <2>1. PICK k \in {"loaded", "fatal"} : Send(Message(NoJob, k, Nowhere))
    BY <1>7 DEF WorkerLoads
  <2>2. Message(NoJob, k, Nowhere) \in Messages
    BY <1>6, NoneTypes DEF Message, Messages, Jobs
  <2> QED BY <1>5, <1>7, <2>1, <2>2 DEF WorkerLoads
<1>8. CASE WorkerAnswers
  <2>1. PICK k \in {"found", "poor", "error"}, fix \in Fixes :
            Send(Message(Head(proc.requests), k, fix))
    BY <1>6, <1>8 DEF WorkerAnswers
  <2>2. Head(proc.requests) \in Jobs /\ proc.at = "idle" /\ proc.requests # <<>>
    BY <1>2, <1>8 DEF WorkerAnswers, Processes
  <2>3. Message(Head(proc.requests), k, fix) \in Messages
    BY <2>2 DEF Message, Messages, Jobs
  <2> QED BY <1>5, <2>1, <2>2, <2>3
<1>9. CASE WorkerDies
  <2> DEFINE q == [proc EXCEPT !.at = "dead"]
  <2>1. q \in Processes BY <1>2 DEF Processes
  <2>2. proc' = q /\ UNCHANGED <<session, node, asked>> /\ proc.at # "none"
    BY <1>9 DEF WorkerDies
  <2> HIDE DEF q
  <2> QED BY <1>4, <2>1, <2>2
<1>10. CASE GoStale
  <2>1. PICK i \in Inputs : Become(Without(Here, i))
    BY <1>2, <1>10 DEF GoStale, Nodes
  <2> DEFINE y == Without(Here, i)
  <2>2. Good(y) /\ Announced(y) /\ (Gone(Here) => Gone(y))
    BY <1>1, InputsFollow DEF Follows, Announced
  <2> HIDE DEF y
  <2>3. Become(y) BY <2>1 DEF y
  <2> QED BY <1>0, <1>1, <2>2, <2>3, BecomeKept
<1>11. CASE Expire
  <2>1. PICK d \in {"search", "track", "job", "load"} :
            node' = [node EXCEPT !.late = @ \cup {d}] /\ UNCHANGED <<session, proc, asked>>
    BY <1>11 DEF Expire
  <2> DEFINE m == [node EXCEPT !.late = @ \cup {d}]
             y == [Here EXCEPT !.n = m]
  <2>2. /\ m \in Nodes /\ m.born = node.born /\ m.collected = node.collected
        /\ m.scans = node.scans /\ m.job = node.job /\ m.auto = node.auto /\ m.seen = node.seen
        /\ m.ready = node.ready /\ node.seen \in Nat
    BY <1>2 DEF Nodes
  <2>3. node' = m BY <2>1
  <2> HIDE DEF m
  <2>4. Follows(Here, y) BY <1>1, <1>2, <2>2, NodeReplaced
  <2>5. y.s = session /\ y.n = m /\ y.p = proc BY <1>2 DEF Here
  <2> HIDE DEF y
  <2>6. Become(y) BY <2>1, <2>3, <2>5 DEF Become
  <2>7. Good(y) /\ Announced(y) /\ (Gone(Here) => Gone(y))
    BY <1>1, <1>2, <2>2, <2>4, <2>5 DEF Follows, Announced
  <2> QED BY <1>0, <1>1, <2>6, <2>7, BecomeKept
<1> QED BY <1>7, <1>8, <1>9, <1>10, <1>11

\* No step brings back a session that is over, unless the operator asks.
LEMMA StepKeeps == Inv /\ [Next]_vars => Kept
<1> SUFFICES ASSUME Inv, [Next]_vars PROVE Kept
  OBVIOUS
<1>1. CASE UNCHANGED vars
  BY <1>1 DEF vars, Kept, Inv, Here, Good, Announced, Counted, Apart, First, Taken, Gone
<1> QED BY <1>1, CallbacksKept, OperatorKept, StepKept, OthersKept DEF Next

\* The invariant holds at the start and no step breaks it.
LEMMA InvAlways == Spec => []Inv
<1>1. Init => Inv
  <2> SUFFICES ASSUME Init PROVE Inv
    OBVIOUS
  <2>1. session = FreshSession /\ node = FreshNode /\ proc = NoProcess /\ asked = 0
    BY DEF Init
  <2>2. FreshSession \in Sessions
    <3>1. -1 \in Int OBVIOUS
    <3>2. PICK k \in Int : k = -1 BY <3>1
    <3>3. FreshSession = [gen |-> 0, state |-> "WAITING", transform |-> {}, candidate |-> {},
                          confirmations |-> 0, failures |-> 0, lastJob |-> k, evidence |-> {}]
      BY <3>2 DEF FreshSession
    <3> QED BY <3>3 DEF Sessions, SessionStates
  <2>3. FreshNode \in Nodes BY NoneTypes DEF FreshNode, Nodes, Submaps
  <2>4. Here \in Places BY <2>1, <2>2, <2>3, NoneTypes DEF Here, Places
  <2>5. Counted(session) BY <2>1, FS_EmptySet DEF FreshSession, Counted
  <2>6. Apart(session, node) BY <2>1, NoneTypes DEF FreshSession, FreshNode, Apart
  <2>7. First(Here) /\ Announced(Here)
    BY <2>1 DEF First, Announced, Here, FreshSession, FreshNode, NoProcess
  <2> QED BY <2>1, <2>4, <2>5, <2>6, <2>7 DEF Inv, Good, Here
<1>2. Inv /\ [Next]_vars => Inv' BY StepKeeps DEF Kept
<1> QED BY <1>1, <1>2, PTL DEF Spec

-----------------------------------------------------------------------------

\* What is announced as ready rests on as many registrations of submaps without
\* a scan in common as are required, all of scans of this session.
THEOREM ConfirmedBeforeReady == Spec => []ReadyIsConfirmed
<1>1. Inv => ReadyIsConfirmed
  <2> SUFFICES ASSUME Inv PROVE ReadyIsConfirmed
    OBVIOUS
  <2>1. Counted(session) /\ Apart(session, node) /\ session \in Sessions /\ node \in Nodes
    BY DEF Inv, Good, Here, Places
  <2>2. node.ready => session.state = "TRACKING" BY DEF Inv, Announced, Here
  <2>3. \A e \in session.evidence : e \subseteq node.born + 1 .. node.seen
    <3>1. Taken(node) \subseteq node.born + 1 .. node.seen
      BY <2>1 DEF Taken, Apart, Nodes
    <3> QED BY <2>1, <3>1 DEF Apart
  <2>4. \A e, f \in session.evidence : e # f => e \cap f = {} BY <2>1 DEF Apart
  <2> QED BY <2>1, <2>2, <2>3, <2>4 DEF ReadyIsConfirmed, Counted
<1> QED BY <1>1, InvAlways, PTL

\* Whatever answers are still on their way, and whichever process dies, a
\* session that is over stays so until the operator asks for another.
THEOREM OverIsOver == Spec => LostStaysLost
<1>1. Inv /\ [Next]_vars =>
        [ session.state \in {"LOST", "FAILED"} /\ asked' = asked
            => session'.state \in {"LOST", "FAILED"} ]_vars
  BY StepKeeps DEF Kept, Gone, Here
<1> QED BY <1>1, InvAlways, PTL DEF Spec, LostStaysLost
-----------------------------------------------------------------------------
(* The local map                                                           *)

Boxes == [min : Int, max : Int]

\* Along an axis, the box is as long as it was made, and what is in reach is in it.
Covers(b, p) == /\ b.max - b.min = Side
                /\ p - b.min >= DetRange /\ b.max - p >= DetRange

BoxInv ==
    /\ box \in [Axes -> Boxes] /\ place \in [Axes -> Int]
    /\ box # Est!NoBox => \A a \in Axes : Covers(box[a], place[a])

\* The constants of the local map.  A move is at least half the reach, and not so far that
\* the other edge comes into reach.
LEMMA BoxConstants ==
    /\ DetRange \in Nat /\ DetRange > 0 /\ Side \in Nat /\ Side >= 3 * DetRange
    /\ 2 * (Side \div 2) = Side /\ Side \div 2 \in Nat
    /\ Est!MovDist \in Nat /\ Est!MovDist > 0 /\ 2 * Est!MovDist >= DetRange
    /\ 2 * Est!MovDist <= 2 * Side - 5 * DetRange
<1>1. /\ DetRange \in Nat /\ DetRange > 0 /\ Side \in Nat /\ Side >= 3 * DetRange
      /\ DetRange % 20 = 0 /\ Side % 20 = 0
  BY PlanningAssumptions DEF Est!EstimatorAssumption
<1>2. PICK r \in Nat, s \in Nat : DetRange = 20 * r /\ Side = 20 * s
  <2>1. DetRange = 20 * (DetRange \div 20) /\ DetRange \div 20 \in Nat  BY <1>1
  <2>2. Side = 20 * (Side \div 20) /\ Side \div 20 \in Nat  BY <1>1
  <2> QED  BY <2>1, <2>2
<1>3. r > 0 /\ s >= 3 * r  BY <1>1, <1>2
<1>4. Side \div 2 = 10 * s /\ DetRange \div 2 = 10 * r  BY <1>2
<1>5. ((Side - 3 * DetRange) * 9) \div 20 = 9 * (s - 3 * r)
  <2>1. (Side - 3 * DetRange) * 9 = 20 * (9 * (s - 3 * r))  BY <1>2
  <2>2. 9 * (s - 3 * r) \in Nat  BY <1>2, <1>3
  <2> QED  BY <2>1, <2>2
<1>6. Est!MovDist \in {9 * (s - 3 * r), 10 * r} /\ Est!MovDist >= 10 * r
  <2> DEFINE S == {9 * (s - 3 * r), 10 * r}
  <2>1. Est!MovDist = CHOOSE x \in S : \A y \in S : x >= y
    BY <1>4, <1>5 DEF Est!MovDist, Est!Max
  <2>2. S \subseteq Nat  BY <1>2, <1>3
  <2>3. \E x \in S : \A y \in S : x >= y
    BY <2>2
  <2>4. Est!MovDist \in S /\ \A y \in S : Est!MovDist >= y
    <3> HIDE DEF S
    <3> QED  BY <2>1, <2>3
  <2> QED  BY <2>4
<1> QED  BY <1>1, <1>2, <1>3, <1>4, <1>6

\* The vehicle gets no further than half the reach from one scan to the next.
LEMMA WaysAreShort ==
    \A way \in {-Way, 0, Way} : way \in Int /\ 2 * way <= DetRange /\ 0 - 2 * way <= DetRange
BY PlanningAssumptions DEF Est!EstimatorAssumption

\* Moving the box takes what is in reach into it, and gives up a slab that is not.
LEMMA BoxMoves ==
    ASSUME NEW b \in Boxes, NEW p \in Int, b.max - b.min = Side,
           2 * (p - b.min) >= DetRange, 2 * (b.max - p) >= DetRange
    PROVE  /\ Est!Moved(p, b) \in Boxes /\ Covers(Est!Moved(p, b), p)
           /\ Est!Moved(p, b) # b =>
                LET s == Est!Slab(p, b)
                IN /\ s.max <= p - DetRange \/ p + DetRange <= s.min
                   /\ s.min >= Est!Moved(p, b).max \/ s.max <= Est!Moved(p, b).min
<1> DEFINE d == Est!MovDist
<1>1. /\ DetRange \in Nat /\ DetRange > 0 /\ Side \in Nat /\ Side >= 3 * DetRange
      /\ d \in Nat /\ d > 0 /\ 2 * d >= DetRange /\ 2 * d <= 2 * Side - 5 * DetRange
  BY BoxConstants
<1>2. b.min \in Int /\ b.max \in Int /\ p >= b.min /\ p <= b.max
  BY <1>1 DEF Boxes
<1>3. Est!Distance(p, b.min) = p - b.min /\ Est!Distance(p, b.max) = b.max - p
  BY <1>2 DEF Est!Distance
<1>4. Est!Moved(p, b) = [min |-> b.min + Est!Shift(p, b), max |-> b.max + Est!Shift(p, b)]
  BY DEF Est!Moved
<1>5. CASE 2 * (p - b.min) <= 3 * DetRange
  <2>1. Est!Shift(p, b) = 0 - d  BY <1>3, <1>5 DEF Est!Shift, Est!NearEdge
  <2>2. Est!Slab(p, b) = [min |-> b.max - d, max |-> b.max]
    <3> HIDE DEF d
    <3>1. 0 - d < 0  BY <1>1
    <3> QED  BY <2>1, <3>1 DEF Est!Slab, d
  <2> HIDE DEF d
  <2> QED  BY <1>1, <1>2, <1>4, <1>5, <2>1, <2>2 DEF Covers, Boxes
<1>6. CASE ~(2 * (p - b.min) <= 3 * DetRange) /\ 2 * (b.max - p) <= 3 * DetRange
  <2>1. Est!Shift(p, b) = d  BY <1>3, <1>6 DEF Est!Shift, Est!NearEdge
  <2>2. Est!Slab(p, b) = [min |-> b.min, max |-> b.min + d]
    <3> HIDE DEF d
    <3>1. ~(d < 0)  BY <1>1
    <3> QED  BY <2>1, <3>1 DEF Est!Slab, d
  <2> HIDE DEF d
  <2> QED  BY <1>1, <1>2, <1>4, <1>6, <2>1, <2>2 DEF Covers, Boxes
<1>7. CASE ~(2 * (p - b.min) <= 3 * DetRange) /\ ~(2 * (b.max - p) <= 3 * DetRange)
  <2>1. Est!Shift(p, b) = 0  BY <1>3, <1>7 DEF Est!Shift, Est!NearEdge
  <2>2. Est!Moved(p, b) = b  BY <1>2, <1>4, <2>1 DEF Boxes
  <2> QED  BY <1>1, <1>2, <1>7, <2>2 DEF Covers
<1> QED  BY <1>5, <1>6, <1>7

\* What a scan does to the box.
LEMMA SegmentKeeps ==
    ASSUME BoxInv, Est!Segment
    PROVE  /\ BoxInv'
           /\ Est!SlabsAreFar
<1> USE DEF BoxInv
<1>1. PICK way \in [Axes -> {-Way, 0, Way}] : place' = [a \in Axes |-> place[a] + way[a]]
  BY DEF Est!Segment
<1>2. box' = [a \in Axes |-> IF box = Est!NoBox THEN Est!Centred(place'[a])
                              ELSE Est!Moved(place'[a], box[a])]
  BY DEF Est!Segment
<1>3. \A a \in Axes : way[a] \in Int /\ 2 * way[a] <= DetRange /\ 0 - 2 * way[a] <= DetRange
  BY WaysAreShort
<1>4. place' \in [Axes -> Int] /\ \A a \in Axes : place'[a] = place[a] + way[a]
  BY <1>1, <1>3
<1>5. CASE box = Est!NoBox
  <2>1. ASSUME NEW a \in Axes
        PROVE  box'[a] \in Boxes /\ Covers(box'[a], place'[a])
    <3>1. box'[a] = [min |-> place'[a] - Side \div 2, max |-> place'[a] + Side \div 2]
      BY <1>2, <1>5 DEF Est!Centred
    <3> DEFINE h == Side \div 2
    <3>2. h \in Nat /\ 2 * h = Side /\ Side \in Nat /\ DetRange \in Nat /\ Side >= 3 * DetRange
      BY BoxConstants
    <3> DEFINE p == place'[a]
    <3>3. p \in Int /\ box'[a] = [min |-> p - h, max |-> p + h]  BY <1>4, <3>1
    <3> HIDE DEF h, p
    <3>4. box'[a].min = p - h /\ box'[a].max = p + h /\ box'[a] \in Boxes
      BY <3>2, <3>3 DEF Boxes
    <3>5. Covers(box'[a], p)  BY <3>2, <3>3, <3>4 DEF Covers
    <3> QED  BY <3>4, <3>5 DEF p
  <2>2. box' \in [Axes -> Boxes]  BY <1>2, <2>1
  <2>3. BoxInv'  BY <1>4, <2>1, <2>2
  <2> QED  BY <1>5, <2>3 DEF Est!SlabsAreFar
<1>6. CASE box # Est!NoBox
  <2>1. ASSUME NEW a \in Axes
        PROVE  /\ box[a] \in Boxes /\ place'[a] \in Int /\ box[a].max - box[a].min = Side
               /\ 2 * (place'[a] - box[a].min) >= DetRange
               /\ 2 * (box[a].max - place'[a]) >= DetRange
    <3>1. box[a] \in Boxes /\ Covers(box[a], place[a]) /\ place[a] \in Int  BY <1>6
    <3> QED  BY <1>3, <1>4, <3>1, BoxConstants DEF Covers, Boxes
  <2>2. \A a \in Axes : box'[a] = Est!Moved(place'[a], box[a])  BY <1>2, <1>6
  <2>3. \A a \in Axes : box'[a] \in Boxes /\ Covers(box'[a], place'[a])
    BY <2>1, <2>2, BoxMoves
  <2>4. box' \in [Axes -> Boxes]  BY <1>2, <2>3
  <2>5. ASSUME NEW a \in Axes, box'[a] # box[a]
        PROVE  LET s == Est!Slab(place'[a], box[a])
               IN /\ s.max <= place'[a] - DetRange \/ place'[a] + DetRange <= s.min
                  /\ s.min >= box'[a].max \/ s.max <= box'[a].min
    BY <2>1, <2>2, <2>5, BoxMoves
  <2>6. BoxInv'  BY <1>4, <2>3, <2>4
  <2> QED  BY <2>5, <2>6 DEF Est!SlabsAreFar
<1> QED  BY <1>5, <1>6

\* Nothing else moves it.
LEMMA BoxStep == BoxInv /\ [PlanningNext]_planning => BoxInv' /\ [Est!SlabsAreFar]_Est!estimatorVars
<1> SUFFICES ASSUME BoxInv, [PlanningNext]_planning
             PROVE  BoxInv' /\ [Est!SlabsAreFar]_Est!estimatorVars
  OBVIOUS
<1>1. CASE UNCHANGED Est!estimatorVars
  BY <1>1 DEF Est!estimatorVars, BoxInv
<1>2. CASE Est!Next
  <2>1. CASE Est!Segment  BY <2>1, SegmentKeeps DEF Est!SlabsAreFar
  <2>2. CASE UNCHANGED <<box, place>>  BY <2>2 DEF BoxInv, Est!SlabsAreFar
  <2> QED  BY <1>2, <2>1, <2>2 DEF Est!Next, Est!Arrive, Est!Iterate, Est!Publish
<1>3. UNCHANGED Est!estimatorVars \/ Est!Next
  BY DEF PlanningNext, Moves, planning, estimatorVars, Est!estimatorVars
<1> QED  BY <1>1, <1>2, <1>3

\* Whatever is in reach of the lidar is in the box of the local map, and what is deleted to
\* move it is not, for any number of axes, and any box of three times the reach
\* (lasermap_fov_segment of laserMapping.cpp).
THEOREM LocalMapIsThere == PlanningSpec => LocalMapFollows
<1>1. PlanningInit => BoxInv
  <2> SUFFICES ASSUME PlanningInit PROVE BoxInv  OBVIOUS
  <2>1. box = Est!NoBox /\ place = [a \in Axes |-> 0]  BY DEF PlanningInit, Est!Init
  <2> QED  BY <2>1 DEF BoxInv, Est!NoBox, Boxes
<1>2. BoxInv => Est!MapCoversReach
  <2> SUFFICES ASSUME BoxInv, box # Est!NoBox, NEW a \in Axes
               PROVE  box[a].min <= place[a] - DetRange /\ place[a] + DetRange <= box[a].max
    BY DEF Est!MapCoversReach
  <2>1. box[a] \in Boxes /\ place[a] \in Int /\ Covers(box[a], place[a])  BY DEF BoxInv
  <2> QED  BY <2>1, BoxConstants DEF Covers, Boxes
<1> QED  BY <1>1, <1>2, BoxStep, PTL
         DEF PlanningSpec, LocalMapFollows, Est!LocalMapFollows
-----------------------------------------------------------------------------
(* The frozen controller and its bridge                                    *)

Kinds == Waypoints \cup {Bridge!None, Bridge!Here, Bridge!Ramp}
CtlFields ==
    {"phase", "zero", "last", "pending", "takeoff", "prestream", "arrived", "ground", "origin",
     "raw", "sequence", "index", "replaced", "setpoint", "final", "generation", "id", "state",
     "error", "target", "status", "capture", "action", "attempts"}

\* A target that was accepted is of the request in force and leads to its waypoint, and so
\* does the setpoint once the present one is captured; only a guided flight has a request.
Leading(c) ==
    /\ c.id # 0 => c.phase = "GUIDING"
    /\ c.target # Bridge!Pose(Bridge!None) =>
         c.id # 0 /\ c.target = [kind |-> c.final, id |-> c.id]
    /\ c.phase = "GUIDING" /\ c.setpoint.id # 0 /\ ~c.capture =>
         c.setpoint.kind = c.final /\ c.setpoint.id = c.id

Ctl(c) ==
    /\ DOMAIN c = CtlFields
    /\ c.raw \in Seq(Waypoints) /\ c.index \in Nat \ {0}
    /\ c.final \in Kinds /\ c.setpoint.kind \in Kinds
    /\ c.generation \in Nat /\ c.id \in Nat /\ c.id <= c.generation
    /\ Leading(c)

\* A request is as it was, or over, or a new one.
Later(c, d) ==
    /\ d.generation >= c.generation
    /\ d.id # 0 => d.id > c.generation \/ (d.id = c.id /\ d.final = c.final)

Keeps(c, d) == Ctl(d) /\ Later(c, d)

\* What the proofs need of the constants of the bridge
LEMMA BridgeConstants ==
    /\ Missions \subseteq Seq(Waypoints) /\ Singles \subseteq Waypoints
    /\ w1 \in Waypoints /\ w2 \in Waypoints /\ MaxEvents \in Nat /\ MaxEvents > 0
BY PlanningAssumptions DEF Bridge!BridgeAssumption

\* One change after another
LEMMA KeepsOn ==
    ASSUME NEW c, NEW d, NEW e, Ctl(c), Keeps(c, d), Keeps(d, e)
    PROVE  Keeps(c, e)
BY DEF Keeps, Later, Ctl

\* No change at all
LEMMA KeepsSame == ASSUME NEW c, Ctl(c) PROVE Keeps(c, c)
BY DEF Keeps, Later, Ctl

\* A controller that is not guided has no request, and only its waypoints and its
\* numbers matter.
LEMMA Unguided ==
    ASSUME NEW c, NEW d, Ctl(c), DOMAIN d = CtlFields,
           d.raw \in Seq(Waypoints), d.index \in Nat \ {0}, d.final \in Kinds,
           d.setpoint.kind \in Kinds, d.generation = c.generation, d.id = 0, d.target = Bridge!Pose(Bridge!None),
           d.phase # "GUIDING"
    PROVE  Keeps(c, d)
BY DEF Keeps, Later, Ctl, Leading

\* Without a request no target is kept.
LEMMA NoRequest ==
    ASSUME NEW c, Ctl(c), c.phase # "GUIDING"
    PROVE  c.id = 0 /\ c.target = Bridge!Pose(Bridge!None)
BY DEF Ctl, Leading

\* What these fields say of the request stays, whatever else changes.
LEMMA Unmoved ==
    ASSUME NEW c, NEW d, Ctl(c), DOMAIN d = CtlFields,
           d.raw \in Seq(Waypoints), d.index \in Nat \ {0},
           d.final = c.final, d.generation = c.generation, d.id = c.id,
           d.target = c.target, d.phase = c.phase, d.setpoint = c.setpoint,
           d.capture = c.capture
    PROVE  Keeps(c, d)
BY DEF Keeps, Later, Ctl, Leading
-----------------------------------------------------------------------------
\* The operators of the controller, from the inside out
LEMMA RevokeFields ==
    ASSUME NEW c, Ctl(c)
    PROVE  LET d == Bridge!RevokePlanner(c)
           IN /\ DOMAIN d = CtlFields
              /\ d.raw = c.raw /\ d.index = c.index /\ d.final = c.final
              /\ d.generation = c.generation /\ d.id = 0 /\ d.phase = c.phase
              /\ d.target = Bridge!Pose(Bridge!None) /\ d.setpoint = c.setpoint
BY DEF Bridge!RevokePlanner, Ctl, CtlFields

\* A failure ends the request.
LEMMA FailKeeps ==
    ASSUME NEW c, Ctl(c)
    PROVE  Keeps(c, Bridge!Fail(c)) /\ Bridge!Fail(c).phase = "ERROR"
<1> DEFINE d == Bridge!RevokePlanner(c)
<1>1. /\ DOMAIN d = CtlFields
      /\ d.raw = c.raw /\ d.index = c.index /\ d.final = c.final
      /\ d.generation = c.generation /\ d.id = 0 /\ d.target = Bridge!Pose(Bridge!None)
      /\ d.setpoint = c.setpoint
  BY RevokeFields
<1> DEFINE e == Bridge!Fail(c)
<1>2. e = [[d EXCEPT !.action = Bridge!None] EXCEPT !.phase = "ERROR"]
  BY DEF Bridge!Fail, Bridge!Cancelled
<1> HIDE DEF d, e
<1>3. /\ DOMAIN e = CtlFields
      /\ e.raw = c.raw /\ e.index = c.index /\ e.final = c.final
      /\ e.generation = c.generation /\ e.id = 0 /\ e.target = Bridge!Pose(Bridge!None)
      /\ e.phase = "ERROR" /\ e.setpoint = c.setpoint
  BY <1>1, <1>2 DEF CtlFields
<1>4. /\ e.raw \in Seq(Waypoints) /\ e.index \in Nat \ {0} /\ e.final \in Kinds
      /\ e.setpoint.kind \in Kinds
  BY <1>3 DEF Ctl
<1> QED  BY <1>3, <1>4, Unguided DEF e

\* So does a pause.
LEMMA PauseKeeps ==
    ASSUME NEW c, Ctl(c)
    PROVE  Keeps(c, Bridge!PauseAtActual(c)) /\ Bridge!PauseAtActual(c).phase = "PAUSED"
<1> DEFINE d == Bridge!RevokePlanner(c)
<1>1. /\ DOMAIN d = CtlFields
      /\ d.raw = c.raw /\ d.index = c.index
      /\ d.generation = c.generation /\ d.id = 0 /\ d.target = Bridge!Pose(Bridge!None)
  BY RevokeFields
<1> DEFINE e == Bridge!PauseAtActual(c)
<1>2. e = [[d EXCEPT !.action = Bridge!None] EXCEPT
             !.phase = "PAUSED", !.setpoint = Bridge!Pose(Bridge!Here),
             !.final = Bridge!Here, !.arrived = FALSE]
  BY DEF Bridge!PauseAtActual, Bridge!Cancelled
<1> HIDE DEF d, e
<1>3. /\ DOMAIN e = CtlFields
      /\ e.raw = c.raw /\ e.index = c.index /\ e.final = Bridge!Here
      /\ e.generation = c.generation /\ e.id = 0 /\ e.target = Bridge!Pose(Bridge!None)
      /\ e.phase = "PAUSED" /\ e.setpoint = Bridge!Pose(Bridge!Here)
  BY <1>1, <1>2 DEF CtlFields
<1>4. /\ e.raw \in Seq(Waypoints) /\ e.index \in Nat \ {0} /\ e.final \in Kinds
      /\ e.setpoint.kind \in Kinds
  BY <1>3 DEF Ctl, Kinds, Bridge!Pose
<1> QED  BY <1>3, <1>4, Unguided DEF e

\* A new request is of the next generation, and begins without a target.
LEMMA BeginKeeps ==
    ASSUME NEW c, NEW d, Ctl(c), DOMAIN d = CtlFields,
           d.raw \in Seq(Waypoints), d.index \in Nat \ {0}, d.final \in Kinds,
           d.setpoint.kind \in Kinds, d.generation = c.generation, d.phase = "GUIDING"
    PROVE  Keeps(c, Bridge!BeginPlanner(d))
<1> DEFINE r == Bridge!RevokePlanner(d)
           e == Bridge!BeginPlanner(d)
<1>1. /\ DOMAIN r = CtlFields /\ r.raw = d.raw /\ r.index = d.index /\ r.final = d.final
      /\ r.generation = d.generation /\ r.phase = d.phase
      /\ r.target = Bridge!Pose(Bridge!None) /\ r.setpoint = d.setpoint
  BY DEF Bridge!RevokePlanner, CtlFields
<1>2. e = [r EXCEPT !.generation = @ + 1, !.id = d.generation + 1,
                    !.state = "WAITING", !.capture = TRUE]
  BY DEF Bridge!BeginPlanner
<1> HIDE DEF r, e
<1>3. /\ DOMAIN e = CtlFields /\ e.raw = d.raw /\ e.index = d.index /\ e.final = d.final
      /\ e.generation = c.generation + 1 /\ e.id = c.generation + 1 /\ e.phase = "GUIDING"
      /\ e.target = Bridge!Pose(Bridge!None) /\ e.capture = TRUE
      /\ e.setpoint = d.setpoint
  BY <1>1, <1>2 DEF CtlFields
<1>4. c.generation \in Nat  BY DEF Ctl
<1> QED  BY <1>3, <1>4 DEF Keeps, Later, Ctl, Leading, e

\* Guiding begins at a waypoint of the mission, or ends in a hover without one.
LEMMA GuideKeeps ==
    ASSUME NEW c, Ctl(c), c.phase # "GUIDING" \/ Bridge!Mission(c) # <<>>
    PROVE  Keeps(c, Bridge!StartGuiding(c))
<1>1. CASE Bridge!Mission(c) = <<>>
  <2> DEFINE e == [c EXCEPT !.phase = "HOLDING", !.final = c.setpoint.kind]
  <2>1. Bridge!StartGuiding(c) = e  BY <1>1 DEF Bridge!StartGuiding
  <2>2. c.id = 0 /\ c.target = Bridge!Pose(Bridge!None)  BY <1>1, NoRequest
  <2>3. DOMAIN c = CtlFields  BY DEF Ctl
  <2>4. /\ DOMAIN e = CtlFields /\ e.raw = c.raw /\ e.index = c.index
        /\ e.final = c.setpoint.kind /\ e.setpoint = c.setpoint
        /\ e.generation = c.generation /\ e.id = c.id /\ e.target = c.target
        /\ e.phase = "HOLDING"
    BY <2>3 DEF CtlFields
  <2> HIDE DEF e
  <2>5. /\ e.raw \in Seq(Waypoints) /\ e.index \in Nat \ {0} /\ e.final \in Kinds
        /\ e.setpoint.kind \in Kinds
    BY <2>4 DEF Ctl
  <2> QED  BY <2>1, <2>2, <2>4, <2>5, Unguided
<1>2. CASE Bridge!Mission(c) # <<>>
  <2> DEFINE i == IF c.index > Len(c.raw) THEN 1 ELSE c.index
             d == [c EXCEPT !.phase = "GUIDING", !.arrived = FALSE, !.index = i,
                            !.final = c.raw[i], !.replaced = FALSE]
  <2>1. Bridge!StartGuiding(c) = Bridge!BeginPlanner(d)  BY <1>2 DEF Bridge!StartGuiding
  <2>2. c.raw \in Seq(Waypoints) /\ c.raw # <<>> /\ c.index \in Nat \ {0}
    BY <1>2 DEF Ctl, Bridge!Mission
  <2>3. Len(c.raw) \in Nat \ {0}  BY <2>2, EmptySeq, LenProperties
  <2>4. i \in 1 .. Len(c.raw) /\ i \in Nat \ {0}  BY <2>2, <2>3
  <2>5. c.raw[i] \in Waypoints
    <3> HIDE DEF i
    <3> QED  BY <2>2, <2>4, ElementOfSeq
  <2> HIDE DEF i
  <2>6. DOMAIN c = CtlFields  BY DEF Ctl
  <2>7. /\ DOMAIN d = CtlFields /\ d.raw = c.raw /\ d.index = i /\ d.final = c.raw[i]
        /\ d.setpoint = c.setpoint /\ d.generation = c.generation /\ d.phase = "GUIDING"
    BY <2>6 DEF CtlFields
  <2> HIDE DEF d
  <2>8. d.final \in Kinds /\ d.setpoint.kind \in Kinds  BY <2>5, <2>7 DEF Kinds, Ctl
  <2> QED  BY <2>1, <2>2, <2>4, <2>7, <2>8, BeginKeeps
<1> QED  BY <1>1, <1>2

\* The next waypoint of the mission
LEMMA AdvanceKeeps ==
    ASSUME NEW c, Ctl(c), c.phase = "GUIDING", c.index < Len(c.raw)
    PROVE  Keeps(c, Bridge!Advance(c))
<1> DEFINE i == c.index + 1
           d == [c EXCEPT !.index = @ + 1, !.final = c.raw[c.index + 1],
                          !.setpoint = Bridge!Pose(Bridge!Here)]
<1>1. Bridge!Advance(c) = Bridge!BeginPlanner(d)  BY DEF Bridge!Advance
<1>2. c.raw \in Seq(Waypoints) /\ c.index \in Nat \ {0} /\ DOMAIN c = CtlFields  BY DEF Ctl
<1>3. i \in 1 .. Len(c.raw) /\ i \in Nat \ {0}
  <2>1. Len(c.raw) \in Nat  BY <1>2, LenProperties
  <2> QED  BY <1>2, <2>1
<1>4. c.raw[i] \in Waypoints
  <2> HIDE DEF i
  <2> QED  BY <1>2, <1>3, ElementOfSeq
<1>5. /\ DOMAIN d = CtlFields /\ d.raw = c.raw /\ d.index = i /\ d.final = c.raw[i]
      /\ d.setpoint = Bridge!Pose(Bridge!Here) /\ d.generation = c.generation
      /\ d.phase = "GUIDING"
  BY <1>2 DEF CtlFields
<1> HIDE DEF d, i
<1>6. d.final \in Kinds /\ d.setpoint.kind \in Kinds  BY <1>4, <1>5 DEF Kinds, Bridge!Pose
<1> QED  BY <1>1, <1>2, <1>3, <1>5, <1>6, BeginKeeps

\* A request of a service is tried again, or given up.
LEMMA RequestKeeps ==
    ASSUME NEW c, Ctl(c), NEW kind, NEW elapsed
    PROVE  LET d == Bridge!MaybeRequest(c, kind, elapsed)
           IN Keeps(c, d) /\ d.phase \in {c.phase, "ERROR"}
<1> DEFINE e == [c EXCEPT !.action = kind, !.attempts = @ + 1]
<1>1. Keeps(c, e) /\ e.phase = c.phase
  <2>1. DOMAIN c = CtlFields /\ c.raw \in Seq(Waypoints) /\ c.index \in Nat \ {0}  BY DEF Ctl
  <2>2. /\ DOMAIN e = CtlFields /\ e.raw = c.raw /\ e.index = c.index /\ e.final = c.final
        /\ e.setpoint = c.setpoint /\ e.generation = c.generation /\ e.id = c.id
        /\ e.target = c.target /\ e.phase = c.phase /\ e.capture = c.capture
    BY <2>1 DEF CtlFields
  <2> HIDE DEF e
  <2> QED  BY <2>1, <2>2, Unmoved
<1> HIDE DEF e
<1>2. Bridge!MaybeRequest(c, kind, elapsed) \in {c, Bridge!Fail(c), e}
  BY DEF Bridge!MaybeRequest, e
<1> QED  BY <1>1, <1>2, FailKeeps, KeepsSame

\* The begin of a series of tries
LEMMA StartActionsKeeps ==
    ASSUME NEW c, Ctl(c), c.phase # "GUIDING", NEW phase, phase # "GUIDING"
    PROVE  LET d == Bridge!StartActions(c, phase)
           IN Keeps(c, d) /\ d.phase = phase
<1> DEFINE d == Bridge!StartActions(c, phase)
<1>1. DOMAIN c = CtlFields /\ c.raw \in Seq(Waypoints) /\ c.index \in Nat \ {0}
      /\ c.final \in Kinds /\ c.setpoint.kind \in Kinds
  BY DEF Ctl
<1>2. c.id = 0 /\ c.target = Bridge!Pose(Bridge!None)  BY NoRequest
<1>3. /\ DOMAIN d = CtlFields /\ d.raw = c.raw /\ d.index = c.index /\ d.final = c.final
      /\ d.setpoint = c.setpoint /\ d.generation = c.generation /\ d.id = c.id
      /\ d.target = c.target /\ d.phase = phase
  BY <1>1 DEF Bridge!StartActions, Bridge!Cancelled, CtlFields
<1> HIDE DEF d
<1>4. Keeps(c, d)  BY <1>1, <1>2, <1>3, Unguided
<1> QED  BY <1>3, <1>4 DEF d

\* On the ground the setpoint is where the vehicle is.
LEMMA OnGroundKeeps ==
    ASSUME NEW c, Ctl(c), NEW s
    PROVE  LET d == Bridge!OnGround(c, s)
           IN Keeps(c, d) /\ d.phase = c.phase
<1> DEFINE d == Bridge!OnGround(c, s)
           aground == c.phase \in Bridge!Grounded
<1>1. DOMAIN c = CtlFields /\ c.raw \in Seq(Waypoints) /\ c.index \in Nat \ {0}
      /\ c.final \in Kinds /\ c.setpoint.kind \in Kinds
  BY DEF Ctl
<1>2. CASE Bridge!GroundSeen(s) /\ aground
  <2>1. d = [c EXCEPT !.prestream = TRUE, !.setpoint = Bridge!Pose(Bridge!Here),
                      !.final = Bridge!Here]
    BY <1>2 DEF Bridge!OnGround
  <2>2. /\ DOMAIN d = CtlFields /\ d.raw = c.raw /\ d.index = c.index
        /\ d.final = Bridge!Here /\ d.setpoint = Bridge!Pose(Bridge!Here)
        /\ d.generation = c.generation /\ d.id = c.id /\ d.target = c.target
        /\ d.phase = c.phase
    BY <1>1, <2>1 DEF CtlFields
  <2>3. c.phase # "GUIDING"  BY <1>2 DEF Bridge!Grounded
  <2>4. c.id = 0 /\ c.target = Bridge!Pose(Bridge!None)  BY <2>3, NoRequest
  <2> HIDE DEF d
  <2>5. d.final \in Kinds /\ d.setpoint.kind \in Kinds  BY <2>2 DEF Kinds, Bridge!Pose
  <2>6. Keeps(c, d)  BY <1>1, <2>2, <2>3, <2>4, <2>5, Unguided
  <2> QED  BY <2>2, <2>6 DEF d
<1>3. CASE ~(Bridge!GroundSeen(s) /\ aground)
  <2>1. PICK b : d = [c EXCEPT !.prestream = b]
    <3>1. CASE ~Bridge!GroundSeen(s)  BY <3>1 DEF Bridge!OnGround
    <3>2. CASE Bridge!GroundSeen(s)
      <4>1. ~aground  BY <1>3, <3>2
      <4>2. d = [c EXCEPT !.prestream = TRUE, !.setpoint = c.setpoint, !.final = c.final]
        BY <3>2, <4>1 DEF Bridge!OnGround
      <4>3. d = [c EXCEPT !.prestream = TRUE]  BY <1>1, <4>2 DEF CtlFields
      <4> QED  BY <4>3
    <3> QED  BY <3>1, <3>2
  <2>2. /\ DOMAIN d = CtlFields /\ d.raw = c.raw /\ d.index = c.index
        /\ d.final = c.final /\ d.setpoint = c.setpoint
        /\ d.generation = c.generation /\ d.id = c.id /\ d.target = c.target
        /\ d.phase = c.phase /\ d.capture = c.capture
    <3> HIDE DEF d
    <3> QED  BY <1>1, <2>1 DEF CtlFields
  <2> HIDE DEF d
  <2>3. Keeps(c, d)  BY <1>1, <2>2, Unmoved
  <2> QED  BY <2>2, <2>3 DEF d
<1> QED  BY <1>2, <1>3

\* The guards end in ERROR or nowhere.
LEMMA GuardedKeeps ==
    ASSUME NEW c, Ctl(c), NEW s PROVE Keeps(c, Bridge!Guarded(c, s))
BY FailKeeps, KeepsSame DEF Bridge!Guarded

\* A change of the command's own fields
LEMMA FlagsKeep ==
    ASSUME NEW c, Ctl(c), NEW z, NEW t, NEW p
    PROVE  /\ Keeps(c, [c EXCEPT !.takeoff = t])
           /\ Keeps(c, [c EXCEPT !.pending = p])
           /\ Keeps(c, [c EXCEPT !.last = z, !.pending = p])
           /\ Keeps(c, [c EXCEPT !.action = z])
           /\ Keeps(c, [c EXCEPT !.ground = z])
           /\ Keeps(c, [c EXCEPT !.arrived = z])
           /\ [c EXCEPT !.pending = p].phase = c.phase
           /\ [c EXCEPT !.pending = p].raw = c.raw
           /\ [c EXCEPT !.arrived = z].phase = c.phase
           /\ [c EXCEPT !.arrived = z].index = c.index
           /\ [c EXCEPT !.arrived = z].raw = c.raw
<1> DEFINE Same(d) == /\ DOMAIN d = CtlFields /\ d.raw = c.raw /\ d.index = c.index
                      /\ d.final = c.final /\ d.setpoint = c.setpoint
                      /\ d.generation = c.generation /\ d.id = c.id /\ d.target = c.target
                      /\ d.phase = c.phase /\ d.capture = c.capture
<1>1. DOMAIN c = CtlFields /\ c.raw \in Seq(Waypoints) /\ c.index \in Nat \ {0}  BY DEF Ctl
<1>2. ASSUME NEW d, Same(d) PROVE Keeps(c, d)  BY <1>1, <1>2, Unmoved
<1>3. /\ Same([c EXCEPT !.takeoff = t])
      /\ Same([c EXCEPT !.pending = p])
      /\ Same([c EXCEPT !.last = z, !.pending = p])
  BY <1>1 DEF CtlFields
<1>4. /\ Same([c EXCEPT !.action = z])
      /\ Same([c EXCEPT !.ground = z])
      /\ Same([c EXCEPT !.arrived = z])
  BY <1>1 DEF CtlFields
<1>5. /\ [c EXCEPT !.pending = p].phase = c.phase
      /\ [c EXCEPT !.pending = p].raw = c.raw
      /\ [c EXCEPT !.arrived = z].phase = c.phase
      /\ [c EXCEPT !.arrived = z].index = c.index
      /\ [c EXCEPT !.arrived = z].raw = c.raw
  BY <1>3, <1>4
<1> HIDE DEF Same
<1> QED  BY <1>2, <1>3, <1>4, <1>5

\* A request of a service that is given up, in a new phase
LEMMA CancelledKeeps ==
    ASSUME NEW c, Ctl(c), c.phase # "GUIDING", NEW phase, phase # "GUIDING", NEW g
    PROVE  /\ Keeps(c, [Bridge!Cancelled(c) EXCEPT !.phase = phase])
           /\ Keeps(c, [Bridge!Cancelled(c) EXCEPT !.phase = phase, !.ground = g])
           /\ Keeps(c, [c EXCEPT !.phase = phase])
           /\ [Bridge!Cancelled(c) EXCEPT !.phase = phase].phase = phase
<1> DEFINE Same(d) == /\ DOMAIN d = CtlFields /\ d.raw = c.raw /\ d.index = c.index
                      /\ d.final = c.final /\ d.setpoint = c.setpoint
                      /\ d.generation = c.generation /\ d.id = c.id /\ d.target = c.target
                      /\ d.phase = phase
<1>1. DOMAIN c = CtlFields /\ c.raw \in Seq(Waypoints) /\ c.index \in Nat \ {0}
      /\ c.final \in Kinds /\ c.setpoint.kind \in Kinds
  BY DEF Ctl
<1>2. c.id = 0 /\ c.target = Bridge!Pose(Bridge!None)  BY NoRequest
<1>3. ASSUME NEW d, Same(d) PROVE Keeps(c, d)
  BY <1>1, <1>2, <1>3, Unguided
<1>4. /\ Same([Bridge!Cancelled(c) EXCEPT !.phase = phase])
      /\ Same([Bridge!Cancelled(c) EXCEPT !.phase = phase, !.ground = g])
      /\ Same([c EXCEPT !.phase = phase])
  BY <1>1 DEF CtlFields, Bridge!Cancelled
<1>5. [Bridge!Cancelled(c) EXCEPT !.phase = phase].phase = phase  BY <1>4
<1> HIDE DEF Same
<1> QED  BY <1>3, <1>4, <1>5

\* Command 0 waits, cancels or pauses.
LEMMA WaitKeeps ==
    ASSUME NEW c, Ctl(c), NEW s PROVE Keeps(c, Bridge!WaitCommand(c, s))
<1> DEFINE d == [c EXCEPT !.zero = TRUE, !.takeoff = FALSE]
<1>1. Keeps(c, d) /\ d.phase = c.phase
  <2>1. DOMAIN c = CtlFields /\ c.raw \in Seq(Waypoints) /\ c.index \in Nat \ {0}  BY DEF Ctl
  <2>2. /\ DOMAIN d = CtlFields /\ d.raw = c.raw /\ d.index = c.index /\ d.final = c.final
        /\ d.setpoint = c.setpoint /\ d.generation = c.generation /\ d.id = c.id
        /\ d.target = c.target /\ d.phase = c.phase /\ d.capture = c.capture
    BY <2>1 DEF CtlFields
  <2> HIDE DEF d
  <2> QED  BY <2>1, <2>2, Unmoved
<1>2. Ctl(d)  BY <1>1 DEF Keeps
<1>3. \/ Bridge!WaitCommand(c, s) = d
      \/ Bridge!WaitCommand(c, s) = Bridge!PauseAtActual(d)
      \/ /\ c.phase # "GUIDING"
         /\ \/ Bridge!WaitCommand(c, s) = [d EXCEPT !.phase = "IDLE_GROUND"]
            \/ Bridge!WaitCommand(c, s) = [Bridge!Cancelled(d) EXCEPT !.phase = "IDLE_GROUND"]
  BY DEF Bridge!WaitCommand
<1> DEFINE e == Bridge!WaitCommand(c, s)
<1> HIDE DEF d, e
<1>4. CASE e = d  BY <1>1, <1>4 DEF e
<1>5. CASE e = Bridge!PauseAtActual(d)
  <2>1. Keeps(d, e)  BY <1>2, <1>5, PauseKeeps
  <2> QED  BY <1>1, <2>1, KeepsOn DEF e
<1>6. CASE c.phase # "GUIDING" /\ e = [d EXCEPT !.phase = "IDLE_GROUND"]
  <2>1. Keeps(d, e)  BY <1>1, <1>2, <1>6, CancelledKeeps
  <2> QED  BY <1>1, <2>1, KeepsOn DEF e
<1>7. CASE c.phase # "GUIDING" /\ e = [Bridge!Cancelled(d) EXCEPT !.phase = "IDLE_GROUND"]
  <2>1. Keeps(d, e)  BY <1>1, <1>2, <1>7, CancelledKeeps
  <2> QED  BY <1>1, <2>1, KeepsOn DEF e
<1> QED  BY <1>3, <1>4, <1>5, <1>6, <1>7 DEF e

\* A landing ends the request.
LEMMA LandingKeeps ==
    ASSUME NEW c, Ctl(c) PROVE Keeps(c, Bridge!StartLanding(c))
<1> DEFINE d == Bridge!RevokePlanner(c)
           e == Bridge!StartLanding(c)
<1>1. /\ DOMAIN d = CtlFields /\ d.raw = c.raw /\ d.index = c.index
      /\ d.generation = c.generation /\ d.id = 0 /\ d.target = Bridge!Pose(Bridge!None)
  BY RevokeFields
<1>2. e = [[[d EXCEPT !.setpoint = Bridge!Pose(Bridge!Here), !.final = Bridge!Here,
                      !.ground = FALSE] EXCEPT !.action = Bridge!None]
             EXCEPT !.phase = "LAND_REQUEST", !.attempts = 0]
  BY DEF Bridge!StartLanding, Bridge!StartActions, Bridge!Cancelled
<1> HIDE DEF d, e
<1>3. /\ DOMAIN e = CtlFields /\ e.raw = c.raw /\ e.index = c.index
      /\ e.final = Bridge!Here /\ e.setpoint = Bridge!Pose(Bridge!Here)
      /\ e.generation = c.generation /\ e.id = 0 /\ e.target = Bridge!Pose(Bridge!None)
      /\ e.phase = "LAND_REQUEST"
  BY <1>1, <1>2 DEF CtlFields
<1>4. /\ e.raw \in Seq(Waypoints) /\ e.index \in Nat \ {0} /\ e.final \in Kinds
      /\ e.setpoint.kind \in Kinds
  BY <1>3 DEF Ctl, Kinds, Bridge!Pose
<1> QED  BY <1>3, <1>4, Unguided DEF e

\* A landing that is over leaves the mission it began with, or none.
LEMMA LandedKeeps ==
    ASSUME NEW c, Ctl(c) PROVE Keeps(c, Bridge!FinishLanding(c))
<1> DEFINE d == Bridge!RevokePlanner(c)
           e == Bridge!FinishLanding(c)
           kept == IF c.sequence THEN c.raw ELSE <<>>
<1>1. /\ DOMAIN d = CtlFields /\ d.raw = c.raw /\ d.final = c.final
      /\ d.setpoint = c.setpoint /\ d.generation = c.generation /\ d.id = 0
      /\ d.target = Bridge!Pose(Bridge!None)
  BY RevokeFields
<1>2. e = [[d EXCEPT !.action = Bridge!None] EXCEPT
             !.phase = "IDLE_GROUND", !.origin = FALSE, !.takeoff = FALSE, !.index = 1,
             !.arrived = FALSE, !.ground = FALSE, !.raw = IF c.sequence THEN @ ELSE <<>>]
  BY DEF Bridge!FinishLanding, Bridge!Cancelled
<1> HIDE DEF d, e
<1>3. /\ DOMAIN e = CtlFields /\ e.raw = kept /\ e.index = 1
      /\ e.final = c.final /\ e.setpoint = c.setpoint
      /\ e.generation = c.generation /\ e.id = 0 /\ e.target = Bridge!Pose(Bridge!None)
      /\ e.phase = "IDLE_GROUND"
  BY <1>1, <1>2 DEF CtlFields
<1>4. kept \in Seq(Waypoints)
  <2>1. c.raw \in Seq(Waypoints) /\ <<>> \in Seq(Waypoints)  BY EmptySeq DEF Ctl
  <2> QED  BY <2>1
<1> HIDE DEF kept
<1>5. /\ e.raw \in Seq(Waypoints) /\ e.index \in Nat \ {0} /\ e.final \in Kinds
      /\ e.setpoint.kind \in Kinds
  BY <1>3, <1>4 DEF Ctl
<1> QED  BY <1>3, <1>5, Unguided DEF e

\* A command is taken up once.
LEMMA CommandKeeps ==
    ASSUME NEW c, Ctl(c), NEW s PROVE Keeps(c, Bridge!ProcessCommand(c, s))
<1> DEFINE d == [c EXCEPT !.pending = {}]
           e == Bridge!ProcessCommand(c, s)
           i == IF c.replaced THEN 1 ELSE c.index
           g == [d EXCEPT !.index = i]
<1>1. Keeps(c, d) /\ d.phase = c.phase  BY FlagsKeep
<1>2. Ctl(d)  BY <1>1 DEF Keeps
<1>3. \/ e = d \/ e = Bridge!WaitCommand(d, s) \/ e = Bridge!StartLanding(d)
      \/ e = [d EXCEPT !.takeoff = TRUE]
      \/ c.phase \in Bridge!Holds /\ e = Bridge!StartGuiding(g)
  <2>1. DOMAIN c = CtlFields  BY DEF Ctl
  <2>2. d.index = c.index /\ d.phase = c.phase  BY <2>1 DEF CtlFields
  <2>3. [d EXCEPT !.index = IF c.replaced THEN 1 ELSE @] = g  BY <2>2
  <2>4. [d EXCEPT !.index = IF c.replaced THEN 1 ELSE d.index] = g  BY <2>2
  <2> QED  BY <2>2, <2>3, <2>4 DEF Bridge!ProcessCommand
<1>4. Keeps(d, g) /\ g.phase = d.phase
  <2>1. DOMAIN d = CtlFields /\ d.raw \in Seq(Waypoints)  BY <1>2 DEF Ctl
  <2>2. i \in Nat \ {0}  BY DEF Ctl
  <2> HIDE DEF d, i
  <2>3. /\ DOMAIN g = CtlFields /\ g.raw = d.raw /\ g.index = i /\ g.final = d.final
        /\ g.setpoint = d.setpoint /\ g.generation = d.generation /\ g.id = d.id
        /\ g.target = d.target /\ g.phase = d.phase /\ g.capture = d.capture
    BY <2>1 DEF CtlFields
  <2> HIDE DEF g
  <2> QED  BY <1>2, <2>1, <2>2, <2>3, Unmoved
<1> HIDE DEF d, e, i, g
<1>5. CASE e = d  BY <1>1, <1>5 DEF e
<1>6. CASE e = Bridge!WaitCommand(d, s)
  BY <1>1, <1>2, <1>6, WaitKeeps, KeepsOn DEF e
<1>7. CASE e = Bridge!StartLanding(d)
  BY <1>1, <1>2, <1>7, LandingKeeps, KeepsOn DEF e
<1>8. CASE e = [d EXCEPT !.takeoff = TRUE]
  <2>1. PICK y : y = TRUE  OBVIOUS
  <2>2. Keeps(d, [d EXCEPT !.takeoff = y])  BY <1>2, FlagsKeep
  <2>3. Keeps(d, e)  BY <1>8, <2>1, <2>2
  <2> QED  BY <1>1, <2>3, KeepsOn DEF e
<1>9. CASE c.phase \in Bridge!Holds /\ e = Bridge!StartGuiding(g)
  <2>1. Ctl(g)  BY <1>4 DEF Keeps
  <2>2. g.phase # "GUIDING"  BY <1>1, <1>4, <1>9 DEF Bridge!Holds
  <2>3. Keeps(g, e)  BY <1>9, <2>1, <2>2, GuideKeeps
  <2>4. Keeps(d, e)  BY <1>2, <1>4, <2>3, KeepsOn
  <2> QED  BY <1>1, <2>4, KeepsOn DEF e
<1> QED  BY <1>3, <1>5, <1>6, <1>7, <1>8, <1>9 DEF e


\* A takeoff that begins sets the origin and goes back to the first waypoint.
LEMMA StartedKeeps ==
    ASSUME NEW c, Ctl(c), NEW s, NEW elapsed PROVE Keeps(c, Bridge!Started(c, s, elapsed))
<1> DEFINE d == [c EXCEPT !.takeoff = FALSE, !.origin = TRUE, !.index = 1,
                          !.setpoint = Bridge!Pose(Bridge!Here), !.final = Bridge!Here]
           e == Bridge!StartActions(d, "OFFBOARD_REQUEST")
<1>1. \/ Bridge!Started(c, s, elapsed) = c
      \/ Bridge!Started(c, s, elapsed) = e /\ c.phase = "IDLE_GROUND"
  BY DEF Bridge!Started
<1>2. CASE c.phase = "IDLE_GROUND"
  <2>1. DOMAIN c = CtlFields /\ c.raw \in Seq(Waypoints)  BY DEF Ctl
  <2>2. c.id = 0 /\ c.target = Bridge!Pose(Bridge!None)  BY <1>2, NoRequest
  <2>3. /\ DOMAIN d = CtlFields /\ d.raw = c.raw /\ d.index = 1 /\ d.final = Bridge!Here
        /\ d.setpoint = Bridge!Pose(Bridge!Here) /\ d.generation = c.generation
        /\ d.id = c.id /\ d.target = c.target /\ d.phase = c.phase
    BY <2>1 DEF CtlFields
  <2> HIDE DEF d
  <2>4. d.final \in Kinds /\ d.setpoint.kind \in Kinds  BY <2>3 DEF Kinds, Bridge!Pose
  <2>5. Keeps(c, d)  BY <1>2, <2>1, <2>2, <2>3, <2>4, Unguided
  <2>6. Ctl(d)  BY <2>5 DEF Keeps
  <2>7. Keeps(d, e)  BY <1>2, <2>3, <2>6, StartActionsKeeps
  <2> HIDE DEF e
  <2>8. Keeps(c, e)  BY <2>5, <2>7, KeepsOn
  <2> QED  BY <1>1, <2>8, KeepsSame
<1>3. CASE c.phase # "IDLE_GROUND"
  BY <1>1, <1>3, KeepsSame
<1> QED  BY <1>2, <1>3

\* The requests of OFFBOARD and ARM
LEMMA RequestedKeeps ==
    ASSUME NEW c, Ctl(c), NEW s, NEW elapsed PROVE Keeps(c, Bridge!Requested(c, s, elapsed))
<1> DEFINE d == IF c.phase # "OFFBOARD_REQUEST" THEN c
                ELSE IF s.mode = "OFFBOARD" THEN Bridge!StartActions(c, "ARMING")
                ELSE Bridge!MaybeRequest(c, "SET_OFFBOARD", elapsed)
           flown == [d EXCEPT !.phase = "TAKEOFF", !.arrived = FALSE, !.final = Bridge!Ramp]
           e == Bridge!Cancelled(flown)
           r == Bridge!Requested(c, s, elapsed)
<1>1. Keeps(c, d)
  <2>1. CASE c.phase # "OFFBOARD_REQUEST"  BY <2>1, KeepsSame
  <2>2. CASE c.phase = "OFFBOARD_REQUEST" /\ s.mode = "OFFBOARD"
    BY <2>2, StartActionsKeeps
  <2>3. CASE c.phase = "OFFBOARD_REQUEST" /\ s.mode # "OFFBOARD"
    BY <2>3, RequestKeeps
  <2> QED  BY <2>1, <2>2, <2>3
<1>2. \/ r = d \/ r = Bridge!Fail(d) \/ (d.phase = "ARMING" /\ r = e)
      \/ r = Bridge!MaybeRequest(d, "ARM", elapsed)
  BY DEF Bridge!Requested
<1>3. Ctl(d)  BY <1>1 DEF Keeps
<1> HIDE DEF d
<1>4. CASE d.phase = "ARMING" /\ r = e
  <2>1. DOMAIN d = CtlFields /\ d.raw \in Seq(Waypoints) /\ d.index \in Nat \ {0}
        /\ d.setpoint.kind \in Kinds
    BY <1>3 DEF Ctl
  <2>2. d.id = 0 /\ d.target = Bridge!Pose(Bridge!None)  BY <1>3, <1>4, NoRequest
  <2>3. /\ DOMAIN e = CtlFields /\ e.raw = d.raw /\ e.index = d.index
        /\ e.final = Bridge!Ramp /\ e.setpoint = d.setpoint /\ e.generation = d.generation
        /\ e.id = d.id /\ e.target = d.target /\ e.phase = "TAKEOFF"
    BY <2>1 DEF Bridge!Cancelled, CtlFields
  <2> HIDE DEF e
  <2>4. e.final \in Kinds /\ e.setpoint.kind \in Kinds  BY <2>1, <2>3 DEF Kinds
  <2>5. Keeps(d, e)  BY <1>3, <2>1, <2>2, <2>3, <2>4, Unguided
  <2> HIDE DEF r
  <2> QED  BY <1>1, <1>4, <2>5, KeepsOn DEF r
<1> HIDE DEF r, e, flown
<1>5. CASE r = d  BY <1>1, <1>5 DEF r
<1>6. CASE r = Bridge!Fail(d)
  <2>1. Keeps(d, r)  BY <1>3, <1>6, FailKeeps
  <2> QED  BY <1>1, <2>1, KeepsOn DEF r
<1>7. CASE r = Bridge!MaybeRequest(d, "ARM", elapsed)
  <2>1. Keeps(d, r)  BY <1>3, <1>7, RequestKeeps
  <2> QED  BY <1>1, <2>1, KeepsOn DEF r
<1> QED  BY <1>2, <1>4, <1>5, <1>6, <1>7

\* The first output of a guided flight is where the vehicle is.
LEMMA CapturedKeeps ==
    ASSUME NEW c, Ctl(c)
    PROVE  LET d == [c EXCEPT !.setpoint = Bridge!Pose(Bridge!Here), !.capture = FALSE]
           IN  c.phase = "GUIDING" =>
                 /\ Keeps(c, d) /\ d.phase = c.phase /\ d.target = c.target
                 /\ d.final = c.final /\ d.id = c.id
<1> DEFINE d == [c EXCEPT !.setpoint = Bridge!Pose(Bridge!Here), !.capture = FALSE]
<1> SUFFICES ASSUME c.phase = "GUIDING"
             PROVE /\ Keeps(c, d) /\ d.phase = c.phase /\ d.target = c.target
                   /\ d.final = c.final /\ d.id = c.id
  OBVIOUS
<1>1. DOMAIN c = CtlFields  BY DEF Ctl
<1>2. /\ DOMAIN d = CtlFields /\ d.raw = c.raw /\ d.index = c.index /\ d.final = c.final
      /\ d.setpoint = Bridge!Pose(Bridge!Here) /\ d.generation = c.generation
      /\ d.id = c.id /\ d.target = c.target /\ d.phase = c.phase
  BY <1>1 DEF CtlFields
<1> HIDE DEF d
<1>3. d.setpoint.kind \in Kinds /\ d.setpoint.id = 0  BY <1>2 DEF Kinds, Bridge!Pose
<1>4. Ctl(d)
  <2>1. Leading(d)  BY <1>2, <1>3 DEF Ctl, Leading
  <2> QED  BY <1>2, <1>3, <2>1 DEF Ctl
<1>5. Later(c, d)  BY <1>2 DEF Later, Ctl
<1> QED  BY <1>2, <1>4, <1>5 DEF Keeps

\* The setpoint follows the planner, or the flight is paused.
LEMMA SteeredKeeps ==
    ASSUME NEW c, Ctl(c), NEW s, NEW elapsed PROVE Keeps(c, Bridge!Steered(c, s, elapsed))
<1> DEFINE r == Bridge!Steered(c, s, elapsed)
           up == [c EXCEPT !.setpoint = Bridge!Pose(Bridge!Ramp)]
           here == [c EXCEPT !.setpoint = Bridge!Pose(Bridge!Here), !.capture = FALSE]
           d == IF c.capture THEN here ELSE c
           e == [d EXCEPT !.setpoint = c.target]
<1>1. DOMAIN c = CtlFields  BY DEF Ctl
<1>2. CASE c.phase = "TAKEOFF"
  <2>1. r = up  BY <1>2 DEF Bridge!Steered
  <2>2. c.id = 0 /\ c.target = Bridge!Pose(Bridge!None)  BY <1>2, NoRequest
  <2>3. /\ DOMAIN up = CtlFields /\ up.raw = c.raw /\ up.index = c.index
        /\ up.final = c.final /\ up.setpoint = Bridge!Pose(Bridge!Ramp)
        /\ up.generation = c.generation /\ up.id = c.id /\ up.target = c.target
        /\ up.phase = c.phase
    BY <1>1 DEF CtlFields
  <2> HIDE DEF r, up
  <2>4. up.setpoint.kind \in Kinds  BY <2>3 DEF Kinds, Bridge!Pose
  <2>5. up.raw \in Seq(Waypoints) /\ up.index \in Nat \ {0} /\ up.final \in Kinds
    BY <2>3 DEF Ctl
  <2> QED  BY <1>2, <2>1, <2>2, <2>3, <2>4, <2>5, Unguided DEF r
<1>3. CASE c.phase = "GUIDING"
  <2>1. \/ r = d \/ r = Bridge!PauseAtActual(d) \/ (c.target # Bridge!Pose(Bridge!None) /\ r = e)
    BY <1>3 DEF Bridge!Steered
  <2>2. /\ Keeps(c, d) /\ d.phase = c.phase /\ d.target = c.target
        /\ d.final = c.final /\ d.id = c.id
    BY <1>3, CapturedKeeps, KeepsSame
  <2>3. Ctl(d)  BY <2>2 DEF Keeps
  <2> HIDE DEF d
  <2>4. CASE c.target # Bridge!Pose(Bridge!None) /\ r = e
    <3>1. DOMAIN d = CtlFields /\ d.final \in Kinds  BY <2>3 DEF Ctl
    <3>2. /\ DOMAIN e = CtlFields /\ e.raw = d.raw /\ e.index = d.index
          /\ e.final = d.final /\ e.setpoint = d.target
          /\ e.generation = d.generation /\ e.id = d.id /\ e.target = d.target
          /\ e.phase = d.phase
      BY <2>2, <3>1 DEF CtlFields
    <3> HIDE DEF e
    <3>3. d.id # 0 /\ d.target = [kind |-> d.final, id |-> d.id]
      BY <2>2, <2>3, <2>4 DEF Ctl, Leading
    <3>4. e.setpoint.kind = e.final /\ e.setpoint.id = e.id  BY <3>2, <3>3
    <3>5. Leading(e)  BY <1>3, <2>2, <3>2, <3>3, <3>4 DEF Leading
    <3>6. Ctl(e)  BY <2>3, <3>1, <3>2, <3>4, <3>5 DEF Ctl
    <3>7. Keeps(d, e)  BY <2>3, <3>2, <3>6 DEF Keeps, Later, Ctl
    <3> HIDE DEF r
    <3> QED  BY <2>2, <2>4, <3>7, KeepsOn DEF r
  <2> HIDE DEF r, e
  <2>5. CASE r = d  BY <2>2, <2>5 DEF r
  <2>6. CASE r = Bridge!PauseAtActual(d)
    <3>1. Keeps(d, r)  BY <2>3, <2>6, PauseKeeps
    <3> QED  BY <2>2, <3>1, KeepsOn DEF r
  <2> QED  BY <2>1, <2>4, <2>5, <2>6
<1>4. CASE c.phase \notin {"TAKEOFF", "GUIDING"}
  <2>1. r = c  BY <1>4 DEF Bridge!Steered
  <2> QED  BY <2>1, KeepsSame DEF r
<1> QED  BY <1>2, <1>3, <1>4

\* A hover after a takeoff or a mission
LEMMA HoverKeeps ==
    ASSUME NEW c, Ctl(c), NEW final \in Kinds
    PROVE  LET r == [Bridge!RevokePlanner(c) EXCEPT
                        !.phase = "HOLDING", !.setpoint = Bridge!Pose(Bridge!Here),
                        !.final = final]
           IN Keeps(c, r)
<1> DEFINE d == Bridge!RevokePlanner(c)
           e == [d EXCEPT !.phase = "HOLDING", !.setpoint = Bridge!Pose(Bridge!Here),
                          !.final = final]
<1>1. /\ DOMAIN d = CtlFields /\ d.raw = c.raw /\ d.index = c.index
      /\ d.generation = c.generation /\ d.id = 0 /\ d.target = Bridge!Pose(Bridge!None)
  BY RevokeFields
<1> HIDE DEF d
<1>2. /\ DOMAIN e = CtlFields /\ e.raw = c.raw /\ e.index = c.index /\ e.final = final
      /\ e.setpoint = Bridge!Pose(Bridge!Here) /\ e.generation = c.generation
      /\ e.id = 0 /\ e.target = Bridge!Pose(Bridge!None) /\ e.phase = "HOLDING"
  BY <1>1 DEF CtlFields
<1> HIDE DEF e
<1>3. /\ e.raw \in Seq(Waypoints) /\ e.index \in Nat \ {0} /\ e.setpoint.kind \in Kinds
  BY <1>2 DEF Ctl, Kinds, Bridge!Pose
<1>4. Keeps(c, e)  BY <1>2, <1>3, Unguided
<1> QED  BY <1>4 DEF e, d

\* An arrival goes on to the next waypoint or ends the flight.
LEMMA ArrivalKeeps ==
    ASSUME NEW c, Ctl(c), NEW s, NEW elapsed, c.phase \in {"TAKEOFF", "GUIDING"}
    PROVE  Keeps(c, Bridge!UpdateArrival(c, s, elapsed))
<1> DEFINE r == Bridge!UpdateArrival(c, s, elapsed)
           d == [c EXCEPT !.arrived = FALSE]
           e == [c EXCEPT !.arrived = TRUE]
           last == [Bridge!RevokePlanner(d) EXCEPT
                      !.setpoint = Bridge!Pose(Bridge!Here), !.phase = "HOLDING"]
<1>1. \/ r = c \/ r = d \/ r = e \/ r = Bridge!FinishTakeoff(d) \/ r = last
      \/ (c.phase = "GUIDING" /\ c.index < Len(c.raw) /\ r = Bridge!Advance(d))
  BY DEF Bridge!UpdateArrival
<1>2. /\ Keeps(c, d) /\ Keeps(c, e) /\ d.phase = c.phase /\ d.index = c.index
      /\ d.raw = c.raw
  <2>1. \A z : /\ Keeps(c, [c EXCEPT !.arrived = z])
               /\ [c EXCEPT !.arrived = z].phase = c.phase
               /\ [c EXCEPT !.arrived = z].index = c.index
               /\ [c EXCEPT !.arrived = z].raw = c.raw
    BY FlagsKeep
  <2> QED  BY <2>1, Zenon
<1>3. Ctl(d)  BY <1>2 DEF Keeps
<1> HIDE DEF d, e
<1>4. CASE r = c  BY <1>4, KeepsSame
<1>5. CASE r \in {d, e}  BY <1>2, <1>5
<1>6. CASE r = Bridge!FinishTakeoff(d)
  <2>1. Bridge!Here \in Kinds  BY DEF Kinds
  <2>2. Keeps(d, r)
    <3> HIDE DEF r
    <3> QED  BY <1>3, <1>6, <2>1, HoverKeeps DEF Bridge!FinishTakeoff
  <2> HIDE DEF r
  <2> QED  BY <1>2, <2>2, KeepsOn DEF r
<1>7. CASE r = last
  <2>1. d.final \in Kinds /\ DOMAIN d = CtlFields  BY <1>3 DEF Ctl
  <2> DEFINE k == Bridge!RevokePlanner(d)
             l == [k EXCEPT !.phase = "HOLDING", !.setpoint = Bridge!Pose(Bridge!Here),
                            !.final = d.final]
  <2>2. Keeps(d, l)  BY <1>3, <2>1, HoverKeeps
  <2>3. last = l
    <3>1. DOMAIN k = CtlFields /\ k.final = d.final  BY <1>3, RevokeFields
    <3>2. last = [k EXCEPT !.setpoint = Bridge!Pose(Bridge!Here), !.phase = "HOLDING"]
      OBVIOUS
    <3> HIDE DEF k, last
    <3> QED  BY <3>1, <3>2 DEF CtlFields
  <2>4. Keeps(d, r)
    <3> HIDE DEF r, last, l
    <3> QED  BY <1>7, <2>2, <2>3
  <2> HIDE DEF r
  <2> QED  BY <1>2, <2>4, KeepsOn DEF r
<1>8. CASE c.phase = "GUIDING" /\ c.index < Len(c.raw) /\ r = Bridge!Advance(d)
  <2>1. Keeps(d, r)
    <3> HIDE DEF r
    <3> QED  BY <1>2, <1>3, <1>8, AdvanceKeeps
  <2> HIDE DEF r
  <2> QED  BY <1>2, <2>1, KeepsOn DEF r
<1> HIDE DEF r, last
<1> QED  BY <1>1, <1>4, <1>5, <1>6, <1>7, <1>8 DEF r

\* A landing goes on, ends or fails.
LEMMA LandKeeps ==
    ASSUME NEW c, Ctl(c), NEW s, NEW elapsed PROVE Keeps(c, Bridge!Landed(c, s, elapsed))
<1> DEFINE r == Bridge!Landed(c, s, elapsed)
           d == Bridge!StartActions(c, "WAIT_DISARM")
<1>1. CASE c.phase \notin Bridge!Landings
  <2>1. r = c  BY <1>1 DEF Bridge!Landed, Bridge!Landings
  <2> QED  BY <2>1, KeepsSame
<1>2. CASE c.phase \in Bridge!Landings
  <2>1. c.phase # "GUIDING"  BY <1>2 DEF Bridge!Landings
  <2>2. \/ r = c \/ r = Bridge!Fail(c) \/ r = Bridge!FinishLanding(c)
        \/ r = Bridge!MaybeRequest(c, "SET_LAND", elapsed)
        \/ r = Bridge!MaybeRequest(c, "DISARM", elapsed)
        \/ r = Bridge!MaybeRequest(d, "DISARM", elapsed)
        \/ r = [c EXCEPT !.ground = FALSE] \/ r = [c EXCEPT !.ground = TRUE]
        \/ r = [Bridge!Cancelled(c) EXCEPT !.phase = "LANDING", !.ground = FALSE]
    BY <1>2 DEF Bridge!Landed, Bridge!Landings
  <2>3. Keeps(c, d)  BY <2>1, StartActionsKeeps
  <2>4. Ctl(d)  BY <2>3 DEF Keeps
  <2>5. /\ Keeps(c, Bridge!MaybeRequest(c, "SET_LAND", elapsed))
        /\ Keeps(c, Bridge!MaybeRequest(c, "DISARM", elapsed))
        /\ Keeps(d, Bridge!MaybeRequest(d, "DISARM", elapsed))
    <3> HIDE DEF d
    <3> QED  BY <2>4, RequestKeeps
  <2>6. Keeps(c, Bridge!MaybeRequest(d, "DISARM", elapsed))
    <3> HIDE DEF d
    <3> QED  BY <2>3, <2>5, KeepsOn
  <2>7. Keeps(c, [c EXCEPT !.ground = FALSE]) /\ Keeps(c, [c EXCEPT !.ground = TRUE])
    <3>1. \A z : Keeps(c, [c EXCEPT !.ground = z])  BY FlagsKeep
    <3> QED  BY <3>1, Zenon
  <2>8. Keeps(c, [Bridge!Cancelled(c) EXCEPT !.phase = "LANDING", !.ground = FALSE])
    <3>1. \A g : Keeps(c, [Bridge!Cancelled(c) EXCEPT !.phase = "LANDING", !.ground = g])
      BY <2>1, CancelledKeeps
    <3> QED  BY <3>1, Zenon
  <2>9. Keeps(c, c) /\ Keeps(c, Bridge!Fail(c)) /\ Keeps(c, Bridge!FinishLanding(c))
    BY KeepsSame, FailKeeps, LandedKeeps
  <2> HIDE DEF r, d
  <2> QED  BY <2>2, <2>5, <2>6, <2>7, <2>8, <2>9 DEF r
<1> QED  BY <1>1, <1>2

\* A tick keeps the request, ends it or begins another.
LEMMA TickKeeps ==
    ASSUME NEW c, Ctl(c), NEW s, NEW elapsed PROVE Keeps(c, Bridge!Tick(c, s, elapsed))
<1> DEFINE c1 == Bridge!OnGround(c, s)
           c2 == Bridge!ProcessCommand(c1, s)
           c3 == Bridge!Guarded(c2, s)
           c4 == Bridge!Started(c3, s, elapsed)
           c5 == Bridge!Requested(c4, s, elapsed)
           c6 == Bridge!Steered(c5, s, elapsed)
           c7 == Bridge!Progressed(c6, s, elapsed)
           c8 == Bridge!Captured(c7)
<1>0. Bridge!Tick(c, s, elapsed) = c8  BY DEF Bridge!Tick
<1> HIDE DEF c8
<1>1. Keeps(c, c1)  BY OnGroundKeeps
<1> HIDE DEF c1
<1>2. Ctl(c1) /\ Keeps(c1, c2)  BY <1>1, CommandKeeps DEF Keeps
<1> HIDE DEF c2
<1>3. Ctl(c2) /\ Keeps(c2, c3)  BY <1>2, GuardedKeeps DEF Keeps
<1> HIDE DEF c3
<1>4. Ctl(c3) /\ Keeps(c3, c4)  BY <1>3, StartedKeeps DEF Keeps
<1> HIDE DEF c4
<1>5. Ctl(c4) /\ Keeps(c4, c5)  BY <1>4, RequestedKeeps DEF Keeps
<1> HIDE DEF c5
<1>6. Ctl(c5) /\ Keeps(c5, c6)  BY <1>5, SteeredKeeps DEF Keeps
<1> HIDE DEF c6
<1>7. Ctl(c6) /\ Keeps(c6, c7)
  <2>1. Ctl(c6)  BY <1>6 DEF Keeps
  <2>2. CASE c6.phase \in {"TAKEOFF", "GUIDING"}
    BY <2>1, <2>2, PauseKeeps, ArrivalKeeps DEF Bridge!Progressed
  <2>3. CASE c6.phase \notin {"TAKEOFF", "GUIDING"}
    BY <2>1, <2>3, LandKeeps DEF Bridge!Progressed
  <2> QED  BY <2>1, <2>2, <2>3
<1> HIDE DEF c7
<1>8. Ctl(c7) /\ Keeps(c7, c8)
  <2>1. Ctl(c7)  BY <1>7 DEF Keeps
  <2>2. Keeps(c7, c8)  BY <2>1, CapturedKeeps, KeepsSame DEF Bridge!Captured, c8
  <2> QED  BY <2>1, <2>2
<1>9. Keeps(c, c3)  BY <1>1, <1>2, <1>3, KeepsOn
<1>10. Keeps(c, c5)  BY <1>4, <1>5, <1>9, KeepsOn
<1>11. Keeps(c, c7)  BY <1>6, <1>7, <1>10, KeepsOn
<1>12. Keeps(c, c8)  BY <1>8, <1>11, KeepsOn
<1> QED  BY <1>0, <1>12
-----------------------------------------------------------------------------
(* What comes between ticks *)

\* A command or the result of a call
LEMMA ArrivalsKeep ==
    ASSUME NEW c, Ctl(c), NEW command
    PROVE  Keeps(c, Bridge!ObserveCommand(c, command)) /\ Keeps(c, Bridge!AcceptResult(c))
BY FlagsKeep, KeepsSame DEF Bridge!ObserveCommand, Bridge!AcceptResult

\* Other waypoints, from the first one on
LEMMA MissionSet ==
    ASSUME NEW c, Ctl(c), NEW mission \in Seq(Waypoints), NEW sequence, NEW r
    PROVE  LET d == Bridge!SetMission(c, mission, sequence)
           IN /\ Keeps(c, d) /\ Keeps(c, [d EXCEPT !.replaced = r])
              /\ d.raw = mission /\ d.phase = c.phase /\ d.origin = c.origin
<1> DEFINE d == Bridge!SetMission(c, mission, sequence)
           e == [d EXCEPT !.replaced = r]
<1>1. DOMAIN c = CtlFields  BY DEF Ctl
<1>2. /\ DOMAIN d = CtlFields /\ d.raw = mission /\ d.index = 1 /\ d.final = c.final
      /\ d.setpoint = c.setpoint /\ d.generation = c.generation /\ d.id = c.id
      /\ d.target = c.target /\ d.phase = c.phase /\ d.capture = c.capture
      /\ d.origin = c.origin
  BY <1>1 DEF Bridge!SetMission, CtlFields
<1> HIDE DEF d
<1>3. /\ DOMAIN e = CtlFields /\ e.raw = mission /\ e.index = 1 /\ e.final = c.final
      /\ e.setpoint = c.setpoint /\ e.generation = c.generation /\ e.id = c.id
      /\ e.target = c.target /\ e.phase = c.phase /\ e.capture = c.capture
  BY <1>2 DEF CtlFields
<1> HIDE DEF e
<1>4. Keeps(c, d)  BY <1>2, Unmoved
<1>5. Keeps(c, e)  BY <1>3, Unmoved
<1> QED  BY <1>2, <1>4, <1>5 DEF d, e

\* A mission that is loaded
LEMMA SequenceKeeps ==
    ASSUME NEW c, Ctl(c), NEW mission \in Missions
    PROVE  Keeps(c, Bridge!ReplaceSequence(c, mission))
<1>1. mission \in Seq(Waypoints)  BY BridgeConstants
<1>2. PICK y : y = TRUE  OBVIOUS
<1>3. \A r : Keeps(c, [Bridge!SetMission(c, mission, y) EXCEPT !.replaced = r])
  BY <1>1, MissionSet
<1>4. Bridge!ReplaceSequence(c, mission) = c
      \/ \E r : Bridge!ReplaceSequence(c, mission) =
                  [Bridge!SetMission(c, mission, y) EXCEPT !.replaced = r]
  <2> DEFINE r == c.phase \in Bridge!Holds
             d == Bridge!SetMission(c, mission, TRUE)
  <2>1. Bridge!ReplaceSequence(c, mission) \in {c, [d EXCEPT !.replaced = r]}
    BY DEF Bridge!ReplaceSequence
  <2>2. d = Bridge!SetMission(c, mission, y)  BY <1>2
  <2> HIDE DEF r, d
  <2> QED  BY <2>1, <2>2
<1> QED  BY <1>3, <1>4, KeepsSame

\* A single target leads a guided flight on at once.
LEMMA SingleKeeps ==
    ASSUME NEW c, Ctl(c), NEW waypoint \in Singles
    PROVE  Keeps(c, Bridge!ReplaceSingle(c, waypoint))
<1> DEFINE one == <<waypoint>>
           d == Bridge!SetMission(c, one, FALSE)
           e == Bridge!StartGuiding(d)
           r == Bridge!ReplaceSingle(c, waypoint)
<1>1. one \in Seq(Waypoints) /\ one # <<>>
  <2>1. waypoint \in Waypoints  BY BridgeConstants
  <2> QED  BY <2>1
<1>2. Keeps(c, d) /\ d.raw = one /\ d.phase = c.phase /\ d.origin = c.origin
  <2>1. PICK n : n = FALSE  OBVIOUS
  <2> HIDE DEF one, d
  <2>2. d = Bridge!SetMission(c, one, n)  BY <2>1 DEF d
  <2>3. LET k == Bridge!SetMission(c, one, n)
        IN /\ Keeps(c, [k EXCEPT !.replaced = n])
           /\ Keeps(c, k) /\ k.raw = one /\ k.phase = c.phase /\ k.origin = c.origin
    BY <1>1, MissionSet
  <2> QED  BY <2>2, <2>3
<1>3. r = c \/ r = d \/ (c.origin /\ r = e)  BY DEF Bridge!ReplaceSingle
<1> HIDE DEF one, d
<1>4. ASSUME c.origin PROVE Keeps(c, e)
  <2>1. Bridge!Mission(d) # <<>>  BY <1>1, <1>2, <1>4 DEF Bridge!Mission
  <2>2. Ctl(d)  BY <1>2 DEF Keeps
  <2>3. Keeps(d, e)  BY <2>1, <2>2, GuideKeeps
  <2> HIDE DEF e
  <2> QED  BY <1>2, <2>3, KeepsOn
<1> HIDE DEF e, r
<1> QED  BY <1>2, <1>3, <1>4, KeepsSame DEF r
-----------------------------------------------------------------------------
(* The events of the queue *)

\* The request stays what it is.
Heard(c, d) == Ctl(d) /\ d.generation = c.generation /\ d.id = c.id /\ d.final = c.final

\* A target of the request in force is one of its waypoint.
Fits(c, e) == e.kind = "target" /\ e.id = c.id /\ c.id # 0 => e.goal = c.final

\* An event changes what is known of the request, not the request.
LEMMA HandledHears ==
    ASSUME NEW c, Ctl(c), NEW e, Fits(c, e)
    PROVE  Heard(c, Bridge!Handled(c, e))
<1> DEFINE d == Bridge!Handled(c, e)
           aimed == [c EXCEPT !.target = [kind |-> e.goal, id |-> e.id]]
<1>1. DOMAIN c = CtlFields  BY DEF Ctl
<1>2. Heard(c, c)  BY DEF Heard
<1>3. ASSUME NEW x, NEW y, NEW z
      PROVE  Heard(c, [c EXCEPT !.status = x, !.state = y, !.error = z])
             /\ Heard(c, [c EXCEPT !.error = z])
  <2> DEFINE u == [c EXCEPT !.status = x, !.state = y, !.error = z]
             v == [c EXCEPT !.error = z]
             Same(w) == /\ DOMAIN w = CtlFields /\ w.raw = c.raw /\ w.index = c.index
                        /\ w.final = c.final /\ w.setpoint = c.setpoint
                        /\ w.generation = c.generation /\ w.id = c.id
                        /\ w.target = c.target /\ w.phase = c.phase
                        /\ w.capture = c.capture
  <2>1. Same(u) /\ Same(v)  BY <1>1 DEF CtlFields
  <2>2. ASSUME NEW w, Same(w) PROVE Heard(c, w)
    BY <2>2 DEF Heard, Ctl, Leading
  <2> HIDE DEF u, v, Same
  <2>3. Heard(c, u) /\ Heard(c, v)  BY <2>1, <2>2
  <2> QED  BY <2>3 DEF u, v
<1>4. CASE e.kind = "target" /\ d = aimed /\ Bridge!Concerns(c, e.id)
  <2>1. e.goal = c.final /\ e.id = c.id /\ c.id # 0 /\ c.phase = "GUIDING"
    BY <1>4 DEF Fits, Bridge!Concerns
  <2>2. /\ DOMAIN aimed = CtlFields /\ aimed.raw = c.raw /\ aimed.index = c.index
        /\ aimed.final = c.final /\ aimed.setpoint = c.setpoint
        /\ aimed.generation = c.generation /\ aimed.id = c.id
        /\ aimed.target = [kind |-> c.final, id |-> c.id] /\ aimed.phase = c.phase
        /\ aimed.capture = c.capture
    BY <1>1, <2>1 DEF CtlFields
  <2> HIDE DEF aimed
  <2>3. Leading(aimed)  BY <2>1, <2>2 DEF Ctl, Leading
  <2>4. Heard(c, aimed)  BY <2>2, <2>3 DEF Heard, Ctl
  <2> QED  BY <1>4, <2>4
<1>5. \/ d = c \/ \E z : d = [c EXCEPT !.error = z]
      \/ \E x, y, z : d = [c EXCEPT !.status = x, !.state = y, !.error = z]
      \/ e.kind = "target" /\ d = aimed /\ Bridge!Concerns(c, e.id)
  <2>1. CASE e.kind = "target"
    <3>1. d = Bridge!AcceptTarget(c, e)  BY <2>1 DEF Bridge!Handled
    <3> HIDE DEF d, aimed
    <3> QED  BY <2>1, <3>1 DEF Bridge!AcceptTarget, aimed
  <2>2. CASE e.kind = "status"
    <3>1. d = Bridge!AcceptStatus(c, e)  BY <2>2 DEF Bridge!Handled
    <3> DEFINE z == c.error \/ e.state \notin {"IDLE", "AVOIDING", "GOAL_REACHED"}
               u == [c EXCEPT !.status = TRUE, !.state = e.state, !.error = z]
    <3>2. \/ d = c \/ d = [c EXCEPT !.error = TRUE]
          \/ d = [c EXCEPT !.status = TRUE, !.state = e.state, !.error = @ \/
                    e.state \notin {"IDLE", "AVOIDING", "GOAL_REACHED"}]
      BY <3>1 DEF Bridge!AcceptStatus
    <3>3. u = [c EXCEPT !.status = TRUE, !.state = e.state, !.error = @ \/
                    e.state \notin {"IDLE", "AVOIDING", "GOAL_REACHED"}]
      BY <1>1 DEF CtlFields
    <3>4. \/ d = c \/ d = [c EXCEPT !.error = TRUE] \/ d = u
      BY <3>2, <3>3
    <3> HIDE DEF d, z
    <3> QED  BY <3>4
  <2>3. CASE e.kind \notin {"target", "status"}
    <3>1. d = Bridge!AcceptResponse(c, e)  BY <2>3 DEF Bridge!Handled
    <3> HIDE DEF d
    <3> QED  BY <3>1 DEF Bridge!AcceptResponse
  <2> QED  BY <2>1, <2>2, <2>3
<1> HIDE DEF d, aimed
<1>6. CASE d = c  BY <1>2, <1>6 DEF d
<1>7. CASE \E z : d = [c EXCEPT !.error = z]
  <2>1. PICK z : d = [c EXCEPT !.error = z]  BY <1>7
  <2>2. Heard(c, [c EXCEPT !.error = z])  BY <1>3
  <2> QED  BY <2>1, <2>2 DEF d
<1>8. CASE \E x, y, z : d = [c EXCEPT !.status = x, !.state = y, !.error = z]
  <2>1. PICK x, y, z : d = [c EXCEPT !.status = x, !.state = y, !.error = z]  BY <1>8
  <2>2. Heard(c, [c EXCEPT !.status = x, !.state = y, !.error = z])  BY <1>3
  <2> QED  BY <2>1, <2>2 DEF d
<1> QED  BY <1>4, <1>5, <1>6, <1>7, <1>8 DEF d

\* Every set of numbers has a smallest one.
LEMMA Smallest ==
    ASSUME NEW T, T \subseteq Nat, T # {}
    PROVE  \E x \in T : \A y \in T : x <= y
<1>1. PICK x \in T : \A y \in T : ~(<<y, x>> \in OpToRel(<, Nat))
  BY NatLessThanWellFounded, WFMin
<1>2. ASSUME NEW y \in T PROVE x <= y
  <2>1. y \in Nat /\ x \in Nat  OBVIOUS
  <2>2. ~(y < x)
    <3>1. <<y, x>> \in Nat \X Nat  BY <2>1
    <3> QED  BY <1>1, <3>1 DEF OpToRel
  <2> QED  BY <2>1, <2>2
<1> QED  BY <1>2

\* The largest number of a set of the first ones that has the last of them
LEMMA LastIsMax ==
    ASSUME NEW m \in Nat, NEW s, s \subseteq 1 .. m, m \in s
    PROVE  Bridge!Max(s) = m
<1>1. \A x \in s : x \in Nat /\ m >= x  OBVIOUS
<1>2. \E x \in s : \A y \in s : x >= y  BY <1>1
<1>3. Bridge!Max(s) \in s /\ \A y \in s : Bridge!Max(s) >= y
  BY <1>2 DEF Bridge!Max
<1> DEFINE k == Bridge!Max(s)
<1> HIDE DEF k
<1>4. k \in s /\ k >= m  BY <1>3 DEF k
<1>5. k = m  BY <1>1, <1>4
<1> QED  BY <1>5 DEF k

\* The events of a queue, one after the other, leave the request as it is.
LEMMA PolledHears ==
    ASSUME NEW n \in Nat, NEW es, DOMAIN es = 1 .. n, NEW c, Ctl(c),
           \A i \in 1 .. n : Fits(c, es[i])
    PROVE  Heard(c, Bridge!FoldLeft(Bridge!Handled, c, es))
<1> DEFINE Last(g, s) ==
             IF s = {} THEN c
             ELSE Bridge!Handled(g[s \ {Bridge!Max(s)}], es[Bridge!Max(s)])
           Body(g, m) == [s \in SUBSET (1 .. m) |-> Last(g, s)]
           fold == CHOOSE g : g = Body(g, n)
           There(m) == \E g : g = Body(g, m)
           T == {m \in 0 .. n : ~There(m)}
<1>1. Bridge!FoldLeft(Bridge!Handled, c, es) = fold[1 .. n]
  BY DEF Bridge!FoldLeft, Bridge!MapThenFoldSet
<1>2. \E g : g = Body(g, n)
  <2>1. SUFFICES ASSUME T # {} PROVE FALSE
    <3>1. n \in 0 .. n  OBVIOUS
    <3> HIDE DEF There
    <3>2. There(n)  BY <3>1
    <3> QED  BY <3>2 DEF There
  <2>2. T \subseteq Nat  OBVIOUS
  <2>3. PICK m \in T : \A k \in T : m <= k
    <3> HIDE DEF T
    <3> QED  BY <2>1, <2>2, Smallest
  <2>4. m \in 0 .. n /\ ~ \E g : g = Body(g, m)  BY <2>3
  <2>5. CASE m = 0
    <3> DEFINE g == [s \in SUBSET (1 .. 0) |-> c]
    <3>1. \A s \in SUBSET (1 .. 0) : s = {}  OBVIOUS
    <3>2. \A s \in SUBSET (1 .. 0) : Last(g, s) = c  BY <3>1
    <3> HIDE DEF Last
    <3>3. g = Body(g, 0)  BY <3>2
    <3> QED  BY <2>4, <2>5, <3>3
  <2>6. CASE m # 0
    <3> DEFINE k == m - 1
    <3>1. k \in 0 .. n /\ k \in Nat /\ m \in Nat /\ m = k + 1 /\ ~(m <= k)  BY <2>4, <2>6
    <3>2. k \notin T
      <4> HIDE DEF T, k
      <4> QED  BY <2>3, <3>1
    <3>3. PICK g : g = Body(g, k)  BY <3>1, <3>2
    <3> HIDE DEF k, T
    <3> DEFINE h == [s \in SUBSET (1 .. m) |->
                       IF m \in s THEN Bridge!Handled(g[s \ {m}], es[m]) ELSE g[s]]
    <3>4. 1 .. k \subseteq 1 .. m /\ \A s \in SUBSET (1 .. m) : s \ {m} \in SUBSET (1 .. k)
      BY <3>1
    <3>5. ASSUME NEW s \in SUBSET (1 .. m) PROVE h[s] = Last(h, s)
      <4> DEFINE x == Bridge!Max(s)
                 rest == s \ {x}
      <4>1. CASE m \in s
        <5>1. x = m  BY <3>1, <4>1, LastIsMax
        <5>2. rest \in SUBSET (1 .. m) /\ m \notin rest  BY <5>1
        <5>3. h[rest] = g[rest]  BY <5>2
        <5>4. h[s] = Bridge!Handled(g[rest], es[m])  BY <4>1, <5>1
        <5> HIDE DEF x, h, rest
        <5>5. Last(h, s) = Bridge!Handled(h[rest], es[x])  BY <4>1 DEF x, rest
        <5> QED  BY <5>1, <5>3, <5>4, <5>5
      <4>2. CASE m \notin s
        <5>1. s \in SUBSET (1 .. k)  BY <3>4, <4>2
        <5>2. h[s] = g[s]  BY <4>2
        <5>3. g[s] = Last(g, s)
          <6> HIDE DEF Last, h
          <6> QED  BY <3>3, <5>1
        <5>4. rest \in SUBSET (1 .. m) /\ m \notin rest  BY <4>2
        <5>5. h[rest] = g[rest]  BY <5>4
        <5> HIDE DEF h
        <5>6. Last(h, s) = Last(g, s)  BY <5>5
        <5> QED  BY <5>2, <5>3, <5>6
      <4> QED  BY <4>1, <4>2
    <3>6. h = [s \in SUBSET (1 .. m) |-> h[s]]  OBVIOUS
    <3> HIDE DEF h, Last
    <3>7. h = Body(h, m)  BY <3>5, <3>6
    <3> QED  BY <2>4, <3>7
  <2> QED  BY <2>5, <2>6
<1>3. fold = Body(fold, n)
  <2> HIDE DEF Body
  <2> QED  BY <1>2, Zenon
<1> HIDE DEF fold
<1>4. \A s \in SUBSET (1 .. n) : fold[s] = Last(fold, s)
  <2> HIDE DEF Last
  <2> QED  BY <1>3
<1> DEFINE U == {m \in 0 .. n : ~Heard(c, fold[1 .. m])}
<1>5. U = {}
  <2>1. SUFFICES ASSUME U # {} PROVE FALSE  OBVIOUS
  <2>2. U \subseteq Nat  OBVIOUS
  <2>3. PICK m \in U : \A k \in U : m <= k
    <3> HIDE DEF U
    <3> QED  BY <2>1, <2>2, Smallest
  <2>4. m \in 0 .. n /\ ~Heard(c, fold[1 .. m])  BY <2>3
  <2>5. 1 .. m \in SUBSET (1 .. n)  BY <2>4
  <2>6. CASE m = 0
    <3>1. 1 .. m = {}  BY <2>6
    <3>2. fold[1 .. m] = c  BY <1>4, <2>5, <3>1
    <3> QED  BY <2>4, <3>2 DEF Heard
  <2>7. CASE m # 0
    <3> DEFINE k == m - 1
               d == fold[1 .. k]
    <3>1. k \in 0 .. n /\ m = k + 1 /\ ~(m <= k) /\ m \in 1 .. n /\ m \in 1 .. m
      BY <2>4, <2>7
    <3>2. Heard(c, d)
      <4>1. k \notin U
        <5> HIDE DEF U, k
        <5> QED  BY <2>3, <3>1
      <4> QED  BY <3>1, <4>1
    <3>3. Bridge!Max(1 .. m) = m
      <4>1. m \in Nat /\ m \in 1 .. m  BY <3>1
      <4>2. 1 .. m \subseteq 1 .. m  OBVIOUS
      <4> QED  BY ONLY <4>1, <4>2, LastIsMax
    <3>4. (1 .. m) \ {m} = 1 .. k  BY <3>1
    <3>5. 1 .. m # {}  BY <3>1
    <3>6. fold[1 .. m] = Bridge!Handled(d, es[m])  BY <1>4, <2>5, <3>3, <3>4, <3>5
    <3> HIDE DEF d, k
    <3>7. Fits(d, es[m])  BY <3>1, <3>2 DEF Heard, Fits
    <3>8. Heard(d, Bridge!Handled(d, es[m]))  BY <3>2, <3>7, HandledHears DEF Heard
    <3> DEFINE e == Bridge!Handled(d, es[m])
    <3>9. Heard(c, e)
      <4> HIDE DEF e
      <4>1. Heard(d, e)  BY <3>8 DEF e
      <4> QED  BY <3>2, <4>1 DEF Heard
    <3> QED  BY <2>4, <3>6, <3>9
  <2> QED  BY <2>6, <2>7
<1>6. n \in 0 .. n  OBVIOUS
<1> QED  BY <1>1, <1>5, <1>6
-----------------------------------------------------------------------------
(* The bridge *)

Aims == [id : Nat, goal : Kinds]
Letters ==
    [kind : {"target"}, id : Nat, goal : Kinds, old : BOOLEAN]
    \cup [kind : {"status"}, id : Nat, state : {"IDLE", "GOAL_REACHED"}, old : BOOLEAN]
    \cup [kind : {"response"}, id : Nat, accepted : BOOLEAN]
Bridges ==
    [desired : Nat, permitted : BOOLEAN, acknowledged : Nat, dispatched : Nat,
     queued : BOOLEAN, request : Aims, working : Aims, timedOut : BOOLEAN]

\* What is sent of a request leads to its waypoint.
About(c, g) == g.id <= c.generation /\ (g.id = c.id /\ c.id # 0 => g.goal = c.final)

\* Events are of requests that were made, and statuses of those the node knows.
Told(c, k, e) == /\ e.kind = "target" => About(c, e)
                 /\ e.kind = "status" => e.id \in k

\* A call is of a request the node knows, and none is made of that one again.
Placed(c, b, k, g) ==
    /\ g.id \in k /\ g.id # 0 /\ g.id <= c.generation
    /\ g.id = c.id => g.id = b.desired
    /\ g.id = b.desired => b.dispatched = b.desired

BridgeTypes ==
    /\ Ctl(ctl) /\ bridge \in Bridges /\ bridge.desired <= ctl.generation
    /\ known \subseteq Nat /\ goals \subseteq Aims /\ calls \in Seq(Aims)
    /\ events \in Seq(Letters)

\* The goal in the queue is of the request in force, and was not sent.
Waiting(b, k, s) ==
    b.queued => /\ b.desired # 0 /\ b.request.id = b.desired /\ b.dispatched = b.desired
                /\ b.desired \in k
                /\ \A i \in DOMAIN s : s[i].id # b.desired

BridgeInv ==
    /\ BridgeTypes
    /\ \A g \in goals \cup {bridge.request, bridge.working} : About(ctl, g)
    /\ \A i \in DOMAIN events : Told(ctl, known, events[i])
    /\ bridge.acknowledged \in known \cup {0}
    /\ Waiting(bridge, known, calls)
    /\ \A i \in DOMAIN calls : Placed(ctl, bridge, known, calls[i])
    /\ \A i, j \in DOMAIN calls : calls[i].id = calls[j].id => i = j

\* What is of an earlier request stays so.
LEMMA AboutLater ==
    ASSUME NEW c, NEW d, Ctl(c), Keeps(c, d)
    PROVE  /\ \A g \in Aims : About(c, g) => About(d, g)
           /\ \A k : \A e \in Letters : Told(c, k, e) => Told(d, k, e)
<1>1. /\ c.generation \in Nat /\ d.generation \in Nat /\ d.generation >= c.generation
      /\ d.id # 0 => d.id > c.generation \/ (d.id = c.id /\ d.final = c.final)
      /\ d.id \in Nat
  BY DEF Keeps, Later, Ctl
<1>2. ASSUME NEW g, g.id \in Nat, About(c, g) PROVE About(d, g)
  <2> DEFINE n == g.id
             m == c.generation
             l == d.generation
  <2>1. n \in Nat /\ n <= m /\ (n = c.id /\ c.id # 0 => g.goal = c.final)
    BY <1>2 DEF About
  <2>2. n <= l
    <3> HIDE DEF n, m, l
    <3> QED  BY <1>1, <2>1 DEF m, l
  <2>3. ASSUME n = d.id, d.id # 0 PROVE g.goal = d.final
    <3>1. ~(d.id > m)
      <4> HIDE DEF m
      <4> QED  BY <1>1, <2>1, <2>3 DEF m
    <3>2. d.id = c.id /\ d.final = c.final  BY <1>1, <2>3, <3>1
    <3> QED  BY <2>1, <2>3, <3>2
  <2> QED  BY <2>2, <2>3 DEF About
<1>3. ASSUME NEW g \in Aims, About(c, g) PROVE About(d, g)
  <2>1. g.id \in Nat  BY DEF Aims
  <2> QED  BY <1>2, <1>3, <2>1
<1>4. ASSUME NEW e \in Letters, NEW k, Told(c, k, e) PROVE Told(d, k, e)
  <2>1. e.id \in Nat  BY DEF Letters
  <2> QED  BY <1>2, <1>4, <2>1 DEF Told
<1> QED  BY <1>3, <1>4

\* A controller that moves on by itself leaves the bridge as it is.
LEMMA ControllerMoves ==
    ASSUME BridgeInv, Keeps(ctl, ctl'), UNCHANGED <<bridge, events, known, goals, calls>>
    PROVE  BridgeInv'
<1>1. Ctl(ctl) /\ Ctl(ctl')  BY DEF BridgeInv, BridgeTypes, Keeps
<1>2. /\ \A g \in Aims : About(ctl, g) => About(ctl', g)
      /\ \A k : \A e \in Letters : Told(ctl, k, e) => Told(ctl', k, e)
  BY <1>1, AboutLater
<1>3. bridge \in Bridges /\ known \subseteq Nat /\ goals \subseteq Aims /\ calls \in Seq(Aims)
      /\ events \in Seq(Letters)
  BY DEF BridgeInv, BridgeTypes
<1>4. BridgeTypes'
  <2>1. /\ ctl.generation \in Nat /\ ctl'.generation \in Nat /\ bridge.desired \in Nat
        /\ ctl'.generation >= ctl.generation /\ bridge.desired <= ctl.generation
    BY <1>1 DEF Keeps, Later, Ctl, BridgeInv, BridgeTypes, Bridges
  <2>2. bridge.desired <= ctl'.generation  BY ONLY <2>1
  <2> QED  BY <1>1, <1>3, <2>2 DEF BridgeTypes
<1>5. \A g \in goals \cup {bridge.request, bridge.working} : About(ctl', g)
  <2>1. bridge.request \in Aims /\ bridge.working \in Aims  BY <1>3 DEF Bridges
  <2> QED  BY <1>2, <1>3, <2>1 DEF BridgeInv
<1>6. \A i \in DOMAIN events : Told(ctl', known, events[i])
  <2>1. \A i \in DOMAIN events : events[i] \in Letters  BY <1>3, ElementOfSeq, LenProperties
  <2> QED  BY <1>2, <2>1 DEF BridgeInv
<1>7. ASSUME NEW i \in DOMAIN calls PROVE Placed(ctl', bridge, known, calls[i])
  <2> DEFINE g == calls[i]
  <2>1. g \in Aims  BY <1>3, ElementOfSeq, LenProperties
  <2>2. Placed(ctl, bridge, known, g) /\ g.id \in Nat  BY <2>1 DEF BridgeInv, Aims
  <2> HIDE DEF g
  <2>3. /\ ctl.generation \in Nat /\ ctl'.generation \in Nat /\ ctl'.id \in Nat
        /\ ctl'.generation >= ctl.generation
        /\ ctl'.id # 0 => ctl'.id > ctl.generation \/ ctl'.id = ctl.id
    BY <1>1 DEF Keeps, Later, Ctl
  <2>4. g.id <= ctl'.generation /\ (g.id = ctl'.id => g.id = ctl.id)
    BY <2>2, <2>3 DEF Placed
  <2>5. Placed(ctl', bridge, known, g)  BY <2>2, <2>4 DEF Placed
  <2> QED  BY <2>5 DEF g
<1> QED  BY <1>4, <1>5, <1>6, <1>7 DEF BridgeInv

\* An event joins the queue, or takes its place when it is full.
LEMMA EventJoins ==
    ASSUME BridgeInv, NEW e \in Letters, Told(ctl, known, e),
           events' = Bridge!Enqueued(e) \/ events' = Append(events, e)
    PROVE  /\ events' \in Seq(Letters)
           /\ \A i \in DOMAIN events' : Told(ctl, known, events'[i])
<1> DEFINE r == Bridge!Refused(bridge.desired)
           pair == <<r, e>>
           more == Append(events, e)
<1>1. events \in Seq(Letters) /\ \A i \in DOMAIN events : Told(ctl, known, events[i])
  BY DEF BridgeInv, BridgeTypes
<1>2. r \in Letters /\ Told(ctl, known, r)
  <2>1. bridge.desired \in Nat  BY DEF BridgeInv, BridgeTypes, Bridges
  <2>2. r.kind = "response" /\ r \in Letters  BY <2>1 DEF Letters, Bridge!Refused
  <2> QED  BY <2>2 DEF Told
<1>3. CASE events' = pair
  <2>1. pair \in Seq(Letters)  BY <1>2
  <2>2. DOMAIN pair = 1 .. 2 /\ pair[1] = r /\ pair[2] = e
    <3> HIDE DEF r
    <3> QED  OBVIOUS
  <2>3. \A i \in 1 .. 2 : i = 1 \/ i = 2  OBVIOUS
  <2> HIDE DEF pair, r
  <2> QED  BY <1>2, <1>3, <2>1, <2>2, <2>3
<1>4. CASE events' = more
  <2>1. /\ more \in Seq(Letters) /\ Len(more) = Len(events) + 1
        /\ \A i \in 1 .. Len(events) : more[i] = events[i]
        /\ more[Len(events) + 1] = e
    BY <1>1, AppendProperties
  <2>2. DOMAIN more = 1 .. Len(more) /\ DOMAIN events = 1 .. Len(events) /\ Len(events) \in Nat
    BY <1>1, <2>1, LenProperties
  <2> HIDE DEF more
  <2>3. \A i \in DOMAIN more : i \in DOMAIN events \/ i = Len(events) + 1  BY <2>1, <2>2
  <2> QED  BY <1>1, <1>4, <2>1, <2>2, <2>3
<1>5. events' \in {pair, more}  BY DEF Bridge!Enqueued
<1> QED  BY <1>3, <1>4, <1>5

\* A step that only queues an event, or that lets the bridge go from the call
LEMMA QueueKeeps ==
    ASSUME BridgeInv, NEW e \in Letters, Told(ctl, known, e),
           events' = Bridge!Enqueued(e) \/ events' = Append(events, e),
           UNCHANGED <<ctl, known, calls>>, goals' \subseteq goals \cup {bridge.working},
           bridge' = bridge \/ bridge' = [bridge EXCEPT !.working = Bridge!NoGoal]
    PROVE  BridgeInv'
<1>1. /\ events' \in Seq(Letters)
      /\ \A i \in DOMAIN events' : Told(ctl, known, events'[i])
  BY EventJoins
<1>2. /\ bridge' \in Bridges /\ bridge'.desired = bridge.desired
      /\ bridge'.request = bridge.request /\ bridge'.queued = bridge.queued
      /\ bridge'.dispatched = bridge.dispatched
      /\ bridge'.acknowledged = bridge.acknowledged
      /\ bridge'.working \in {bridge.working, Bridge!NoGoal}
  <2>1. bridge \in Bridges  BY DEF BridgeInv, BridgeTypes
  <2>2. Bridge!NoGoal \in Aims  BY DEF Aims, Kinds, Bridge!NoGoal
  <2>3. CASE bridge' = bridge  BY <2>1, <2>3
  <2>4. CASE bridge' = [bridge EXCEPT !.working = Bridge!NoGoal]
    <3> DEFINE none == Bridge!NoGoal
    <3> HIDE DEF none
    <3>1. none \in Aims /\ bridge' = [bridge EXCEPT !.working = none]  BY <2>2, <2>4 DEF none
    <3> QED  BY <2>1, <3>1 DEF Bridges, none
  <2> QED  BY <2>3, <2>4
<1>3. About(ctl, Bridge!NoGoal)
  <2>1. ctl.generation \in Nat  BY DEF BridgeInv, BridgeTypes, Ctl
  <2> QED  BY <2>1 DEF About, Bridge!NoGoal
<1>4. goals' \subseteq Aims
  <2>1. bridge.working \in Aims /\ goals \subseteq Aims  BY DEF BridgeInv, BridgeTypes, Bridges
  <2> QED  BY <2>1
<1>5. \A g \in goals' \cup {bridge'.request, bridge'.working} : About(ctl, g)
  BY <1>2, <1>3 DEF BridgeInv
<1>6. BridgeTypes'  BY <1>1, <1>2, <1>4 DEF BridgeInv, BridgeTypes
<1>7. Waiting(bridge', known, calls)  BY <1>2 DEF BridgeInv, Waiting
<1>8. \A i \in DOMAIN calls : Placed(ctl, bridge', known, calls[i])
  BY <1>2 DEF BridgeInv, Placed
<1> QED  BY <1>1, <1>2, <1>5, <1>6, <1>7, <1>8 DEF BridgeInv

\* A context that arrives makes the request known.
LEMMA ContextKeeps ==
    ASSUME BridgeInv, Bridge!ContextArrives PROVE BridgeInv'
<1>1. known \subseteq known' /\ UNCHANGED <<ctl, bridge, events, goals, calls>>
  BY DEF Bridge!ContextArrives
<1>2. BridgeTypes'
  <2>1. known' \subseteq Nat
    BY DEF Bridge!ContextArrives, BridgeInv, BridgeTypes, Bridges
  <2> QED  BY <1>1, <2>1 DEF BridgeInv, BridgeTypes
<1>3. Waiting(bridge, known', calls)  BY <1>1 DEF BridgeInv, Waiting
<1>4. \A i \in DOMAIN calls : Placed(ctl, bridge, known', calls[i])
  BY <1>1 DEF BridgeInv, Placed
<1>5. \A i \in DOMAIN events : Told(ctl, known', events[i])
  BY <1>1 DEF BridgeInv, Told
<1> QED  BY <1>1, <1>2, <1>3, <1>4, <1>5 DEF BridgeInv

\* The request that is taken from the queue was never called for.
LEMMA CallKeeps ==
    ASSUME BridgeInv, Bridge!StartCall PROVE BridgeInv'
<1> DEFINE idle == [bridge EXCEPT !.queued = FALSE]
           busy == [bridge EXCEPT !.queued = FALSE, !.working = bridge.request,
                                  !.timedOut = FALSE]
           more == Append(calls, bridge.request)
<1>1. /\ UNCHANGED <<ctl, events, known, goals>> /\ bridge.queued
      /\ \/ bridge' = idle /\ calls' = calls
         \/ bridge' = busy /\ calls' = more
  BY DEF Bridge!StartCall
<1>2. /\ bridge \in Bridges /\ calls \in Seq(Aims) /\ bridge.request \in Aims
      /\ bridge.working \in Aims
  BY DEF BridgeInv, BridgeTypes, Bridges
<1>3. /\ bridge' \in Bridges /\ bridge'.desired = bridge.desired
      /\ bridge'.request = bridge.request /\ bridge'.queued = FALSE
      /\ bridge'.dispatched = bridge.dispatched
      /\ bridge'.acknowledged = bridge.acknowledged
      /\ bridge'.working \in {bridge.working, bridge.request}
  <2>1. CASE bridge' = idle  BY <1>2, <2>1 DEF Bridges
  <2>2. CASE bridge' = busy
    <3> DEFINE r == bridge.request
    <3>1. r \in Aims /\ bridge' = [bridge EXCEPT !.queued = FALSE, !.working = r,
                                                 !.timedOut = FALSE]
      BY <1>2, <2>2
    <3>2. bridge.request = r  OBVIOUS
    <3> HIDE DEF r
    <3> QED  BY <1>2, <3>1, <3>2 DEF Bridges
  <2> QED  BY <1>1, <2>1, <2>2
<1>4. \A g \in goals' \cup {bridge'.request, bridge'.working} : About(ctl, g)
  BY <1>1, <1>3 DEF BridgeInv
<1>5. \A i \in DOMAIN calls : Placed(ctl, bridge', known, calls[i])
  BY <1>3 DEF BridgeInv, Placed
<1>6. CASE calls' = calls
  <2>1. BridgeTypes'  BY <1>1, <1>2, <1>3, <1>6 DEF BridgeInv, BridgeTypes
  <2>2. Waiting(bridge', known, calls)  BY <1>3 DEF Waiting
  <2> QED  BY <1>1, <1>3, <1>4, <1>5, <1>6, <2>1, <2>2 DEF BridgeInv
<1>7. CASE calls' = more
  <2> DEFINE n == Len(calls)
             r == bridge.request
  <2>1. /\ more \in Seq(Aims) /\ Len(more) = n + 1
        /\ \A i \in 1 .. n : more[i] = calls[i]
        /\ more[n + 1] = r
    BY <1>2, AppendProperties
  <2>2. DOMAIN more = 1 .. Len(more) /\ DOMAIN calls = 1 .. n /\ n \in Nat
    BY <1>2, <2>1, LenProperties
  <2>3. /\ r.id = bridge.desired /\ r.id # 0 /\ r.id \in known
        /\ bridge.dispatched = bridge.desired /\ r.id <= ctl.generation
        /\ \A i \in DOMAIN calls : calls[i].id # r.id
    BY <1>1 DEF BridgeInv, Waiting, About
  <2>4. Placed(ctl, bridge', known, r)  BY <1>3, <2>3 DEF Placed
  <2> HIDE DEF n, r, more
  <2>5. \A i \in DOMAIN more : (i \in DOMAIN calls /\ more[i] = calls[i])
                               \/ (i = n + 1 /\ i \notin DOMAIN calls /\ more[i] = r)
    BY <2>1, <2>2
  <2>6. \A i \in DOMAIN more : Placed(ctl, bridge', known, more[i])
    BY <1>5, <2>4, <2>5
  <2>7. \A i, j \in DOMAIN more : more[i].id = more[j].id => i = j
    <3>1. \A i, j \in DOMAIN calls : calls[i].id = calls[j].id => i = j  BY DEF BridgeInv
    <3> QED  BY <2>3, <2>5, <3>1
  <2>8. BridgeTypes'  BY <1>1, <1>2, <1>3, <1>7, <2>1 DEF BridgeInv, BridgeTypes
  <2>9. Waiting(bridge', known, more)  BY <1>3 DEF Waiting
  <2> QED  BY <1>1, <1>3, <1>4, <1>7, <2>6, <2>7, <2>8, <2>9 DEF BridgeInv
<1> QED  BY <1>1, <1>6, <1>7

\* An update drops what was queued for another request, and queues the goal of this one
\* when the node has acknowledged it and none was dispatched.
LEMMA UpdateIs ==
    ASSUME NEW c, c.id \in Nat, c.final \in Kinds, NEW ready \in BOOLEAN, NEW b \in Bridges
    PROVE  LET u == Bridge!Updated(c, ready, b)
           IN /\ u \in Bridges /\ u.desired = c.id /\ u.working = b.working
              /\ u.acknowledged \in {0, b.acknowledged}
              /\ \/ /\ u.request = [id |-> c.id, goal |-> c.final] /\ u.dispatched = c.id
                    /\ c.id # 0 /\ b.desired = c.id
                    /\ b.acknowledged = c.id /\ b.dispatched # c.id
                 \/ /\ u.request = b.request
                    /\ u.queued => b.queued /\ b.desired = c.id
                    /\ b.desired = c.id => u.dispatched = b.dispatched
<1> DEFINE changed == b.desired # c.id
           a == IF changed THEN 0 ELSE b.acknowledged
           e == IF changed THEN 0 ELSE b.dispatched
           q == b.queued /\ ~changed /\ ready
           d == [b EXCEPT !.desired = c.id, !.permitted = ready, !.acknowledged = a,
                          !.dispatched = e, !.queued = q]
           g == [id |-> c.id, goal |-> c.final]
           f == [d EXCEPT !.request = g, !.dispatched = c.id, !.queued = TRUE]
           u == Bridge!Updated(c, ready, b)
<1>1. u = IF Bridge!Dispatches(d) THEN f ELSE d
  <2>1. d = [b EXCEPT !.desired = c.id, !.permitted = ready,
                      !.acknowledged = IF changed THEN 0 ELSE @,
                      !.dispatched = IF changed THEN 0 ELSE @,
                      !.queued = @ /\ ~changed /\ ready]
    BY DEF Bridges
  <2> HIDE DEF d
  <2> QED  BY <2>1 DEF Bridge!Updated
<1>2. a \in Nat /\ e \in Nat /\ q \in BOOLEAN /\ g \in Aims
  <2>1. a \in Nat /\ e \in Nat  BY DEF Bridges
  <2>2. q \in BOOLEAN  OBVIOUS
  <2>3. g \in Aims  BY DEF Aims
  <2> QED  BY <2>1, <2>2, <2>3
<1>3. q => b.queued /\ ~changed  OBVIOUS
<1>4. a \in {0, b.acknowledged} /\ (changed => a = 0) /\ (~changed => a = b.acknowledged)
      /\ (~changed => e = b.dispatched)
  OBVIOUS
<1> HIDE DEF a, e, q
<1>5. /\ d \in Bridges /\ d.desired = c.id /\ d.permitted = ready /\ d.acknowledged = a
      /\ d.dispatched = e /\ d.queued = q /\ d.working = b.working /\ d.request = b.request
  BY <1>2 DEF Bridges
<1> HIDE DEF d, g
<1>6. /\ f \in Bridges /\ f.desired = c.id /\ f.acknowledged = a
      /\ f.dispatched = c.id /\ f.working = b.working /\ f.request = g
  BY <1>2, <1>5 DEF Bridges
<1> HIDE DEF f
<1>7. CASE Bridge!Dispatches(d)
  <2>1. c.id # 0 /\ a = c.id /\ e # c.id  BY <1>5, <1>7 DEF Bridge!Dispatches
  <2>2. ~changed  BY <1>4, <2>1
  <2>3. u = f  BY <1>1, <1>7
  <2> HIDE DEF u
  <2> QED  BY <1>4, <1>6, <2>1, <2>2, <2>3 DEF u, g
<1>8. CASE ~Bridge!Dispatches(d)
  <2>1. u = d  BY <1>1, <1>8
  <2> HIDE DEF u
  <2> QED  BY <1>3, <1>4, <1>5, <2>1 DEF u
<1> QED  BY <1>7, <1>8

\* One turn of the control loop
LEMMA ControlKeeps ==
    ASSUME BridgeInv, NEW s, NEW elapsed, NEW over \in BOOLEAN,
           Bridge!Control(s, elapsed, over)
    PROVE  BridgeInv'
<1> DEFINE es == IF over THEN Append(events, Bridge!Refused(bridge.working.id)) ELSE events
           p == Bridge!Polled(over)
           c == Bridge!Tick(p, s, elapsed)
           heard == \E i \in DOMAIN events : Bridge!Acknowledges(events[i])
           a == IF heard THEN bridge.desired ELSE bridge.acknowledged
           out == bridge.timedOut \/ over
           b == [bridge EXCEPT !.timedOut = out, !.acknowledged = a]
           ready == Bridge!PlannerReady(c, s)
<1>1. /\ bridge \in Bridges /\ calls \in Seq(Aims) /\ events \in Seq(Letters)
      /\ Ctl(ctl) /\ bridge.desired \in Nat /\ bridge.acknowledged \in Nat
      /\ bridge.working \in Aims /\ goals \subseteq Aims /\ known \subseteq Nat
  BY DEF BridgeInv, BridgeTypes, Bridges
<1>2. ctl' = c /\ bridge' = Bridge!Updated(c, ready, b) /\ events' = <<>>
      /\ UNCHANGED <<known, goals, calls>>
  <2>1. b = [bridge EXCEPT !.timedOut = @ \/ over,
                    !.acknowledged = IF heard THEN bridge.desired ELSE @]
    BY <1>1 DEF Bridges
  <2> HIDE DEF b
  <2> QED  BY <2>1 DEF Bridge!Control
<1>3. Heard(ctl, p)
  <2>1. /\ es \in Seq(Letters) /\ \A i \in DOMAIN es : Told(ctl, known, es[i])
    <3> DEFINE r == Bridge!Refused(bridge.working.id)
               more == Append(events, r)
    <3>1. \A i \in DOMAIN events : Told(ctl, known, events[i])  BY DEF BridgeInv
    <3>2. r \in Letters /\ Told(ctl, known, r)
      <4>1. bridge.working.id \in Nat  BY <1>1 DEF Aims
      <4>2. r.kind = "response" /\ r \in Letters  BY <4>1 DEF Letters, Bridge!Refused
      <4> QED  BY <4>2 DEF Told
    <3> HIDE DEF r
    <3>3. /\ more \in Seq(Letters) /\ Len(more) = Len(events) + 1
          /\ \A i \in 1 .. Len(events) : more[i] = events[i]
          /\ more[Len(events) + 1] = r
      BY <1>1, <3>2, AppendProperties
    <3>4. /\ DOMAIN more = 1 .. Len(more) /\ DOMAIN events = 1 .. Len(events)
          /\ Len(events) \in Nat
      BY <1>1, <3>3, LenProperties
    <3> HIDE DEF more
    <3>5. \A i \in DOMAIN more : i \in DOMAIN events \/ i = Len(events) + 1  BY <3>3, <3>4
    <3>6. \A i \in DOMAIN more : Told(ctl, known, more[i])
      BY <3>1, <3>2, <3>3, <3>4, <3>5
    <3>7. es = more \/ es = events  BY DEF more, r
    <3> HIDE DEF es
    <3> QED  BY <1>1, <3>1, <3>3, <3>6, <3>7
  <2>2. p = Bridge!FoldLeft(Bridge!Handled, ctl, es)  BY DEF Bridge!Polled
  <2> DEFINE n == Len(es)
  <2> HIDE DEF es, p
  <2>3. DOMAIN es = 1 .. n /\ n \in Nat  BY <2>1, LenProperties
  <2>4. \A i \in 1 .. n : Fits(ctl, es[i])
    <3>1. \A e : Told(ctl, known, e) => Fits(ctl, e)  BY DEF Told, About, Fits
    <3> QED  BY <2>1, <2>3, <3>1
  <2> HIDE DEF n
  <2>5. Heard(ctl, Bridge!FoldLeft(Bridge!Handled, ctl, es))
    BY <1>1, <2>3, <2>4, PolledHears
  <2> QED  BY <2>2, <2>5
<1>4. Keeps(ctl, c)
  <2> HIDE DEF p
  <2>1. Ctl(p) /\ Keeps(ctl, p)
    BY <1>1, <1>3 DEF Heard, Keeps, Later, Ctl
  <2>2. Keeps(p, c)  BY <2>1, TickKeeps
  <2> HIDE DEF c
  <2> QED  BY <1>1, <2>1, <2>2, KeepsOn
<1> HIDE DEF p, c
<1>5. /\ Ctl(c) /\ c.id \in Nat /\ c.final \in Kinds /\ c.generation \in Nat
      /\ ctl.generation \in Nat /\ c.id <= c.generation /\ c.generation >= ctl.generation
      /\ c.id # 0 => c.id > ctl.generation \/ c.id = ctl.id
  BY <1>1, <1>4 DEF Keeps, Later, Ctl
<1>6. a \in known \cup {0} /\ a \in Nat
  <2>1. CASE heard
    <3>1. PICK i \in DOMAIN events : Bridge!Acknowledges(events[i])  BY <2>1
    <3>2. Told(ctl, known, events[i])  BY DEF BridgeInv
    <3>3. bridge.desired \in known  BY <3>1, <3>2 DEF Told, Bridge!Acknowledges
    <3> QED  BY <1>1, <2>1, <3>3
  <2>2. CASE ~heard  BY <1>1, <2>2 DEF BridgeInv
  <2> QED  BY <2>1, <2>2
<1>7. out \in BOOLEAN  OBVIOUS
<1>8. ready \in BOOLEAN  BY DEF Bridge!PlannerReady
<1> HIDE DEF heard, a, out, ready
<1>9. /\ b \in Bridges /\ b.desired = bridge.desired /\ b.acknowledged = a
      /\ b.dispatched = bridge.dispatched /\ b.queued = bridge.queued
      /\ b.request = bridge.request /\ b.working = bridge.working
  BY <1>1, <1>6, <1>7 DEF Bridges
<1> HIDE DEF b
<1> DEFINE u == bridge'
           g == [id |-> c.id, goal |-> c.final]
<1>10. /\ u \in Bridges /\ u.desired = c.id /\ u.working = b.working
       /\ u.acknowledged \in {0, b.acknowledged}
       /\ \/ /\ u.request = g /\ u.dispatched = c.id /\ c.id # 0 /\ b.desired = c.id
             /\ b.acknowledged = c.id /\ b.dispatched # c.id
          \/ /\ u.request = b.request /\ (u.queued => b.queued /\ b.desired = c.id)
             /\ (b.desired = c.id => u.dispatched = b.dispatched)
  BY <1>2, <1>5, <1>8, <1>9, UpdateIs
<1>11. g.id = c.id /\ g.goal = c.final  OBVIOUS
<1> HIDE DEF g, u
<1>12. BridgeTypes'
  <2>1. <<>> \in Seq(Letters)  BY EmptySeq
  <2> QED  BY <1>1, <1>2, <1>5, <1>10, <2>1 DEF BridgeTypes, u
<1>13. \A h \in goals \cup {u.request, u.working} : About(c, h)
  <2>1. \A h \in goals \cup {bridge.request, bridge.working} : h \in Aims /\ About(ctl, h)
    BY <1>1 DEF BridgeInv, Bridges
  <2>2. \A h \in Aims : About(ctl, h) => About(c, h)  BY <1>1, <1>4, AboutLater
  <2>3. About(c, g)  BY <1>5, <1>11 DEF About
  <2> QED  BY <1>9, <1>10, <2>1, <2>2, <2>3
<1>14. u.acknowledged \in known \cup {0}  BY <1>6, <1>9, <1>10
<1>15. ASSUME NEW i \in DOMAIN calls PROVE Placed(c, u, known, calls[i])
  <2> DEFINE h == calls[i]
  <2>1. h \in Aims  BY <1>1, ElementOfSeq, LenProperties
  <2>2. Placed(ctl, bridge, known, h) /\ h.id \in Nat  BY <2>1 DEF BridgeInv, Aims
  <2> HIDE DEF h
  <2>3. h.id <= c.generation  BY <1>5, <2>2 DEF Placed
  <2>4. ASSUME h.id = c.id PROVE u.dispatched = c.id
    <3>1. c.id # 0 /\ ~(c.id > ctl.generation)  BY <1>5, <2>2, <2>4 DEF Placed
    <3>2. bridge.desired = c.id  BY <1>5, <2>2, <2>4, <3>1 DEF Placed
    <3>3. bridge.dispatched = c.id  BY <2>2, <2>4, <3>2 DEF Placed
    <3> QED  BY <1>9, <1>10, <3>2, <3>3
  <2>5. Placed(c, u, known, h)  BY <1>10, <2>2, <2>3, <2>4 DEF Placed
  <2> QED  BY <2>5 DEF h
<1>16. Waiting(u, known, calls)
  <2> SUFFICES ASSUME u.queued
               PROVE  /\ u.desired # 0 /\ u.request.id = u.desired /\ u.dispatched = u.desired
                      /\ u.desired \in known
                      /\ \A i \in DOMAIN calls : calls[i].id # u.desired
    BY DEF Waiting
  <2>1. CASE /\ u.request = g /\ u.dispatched = c.id /\ c.id # 0 /\ b.desired = c.id
             /\ b.acknowledged = c.id /\ b.dispatched # c.id
    <3>1. c.id \in known  BY <1>6, <1>9, <2>1
    <3>2. ASSUME NEW i \in DOMAIN calls PROVE calls[i].id # c.id
      <4>1. Placed(ctl, bridge, known, calls[i])  BY DEF BridgeInv
      <4> QED  BY <1>9, <2>1, <4>1 DEF Placed
    <3> QED  BY <1>10, <1>11, <2>1, <3>1, <3>2
  <2>2. CASE /\ u.request = b.request /\ b.queued /\ b.desired = c.id
             /\ u.dispatched = b.dispatched
    BY <1>9, <1>10, <2>2 DEF BridgeInv, Waiting
  <2> QED  BY <1>10, <2>1, <2>2
<1>17. \A i \in DOMAIN events' : Told(c, known, events'[i])
  <2>1. DOMAIN events' = {}  BY <1>2
  <2> QED  BY <2>1
<1>18. known' = known /\ goals' = goals /\ calls' = calls /\ u = bridge' /\ ctl' = c
  BY <1>2 DEF u
<1>19. \A i, j \in DOMAIN calls : calls[i].id = calls[j].id => i = j  BY DEF BridgeInv
<1> QED
  BY <1>12, <1>13, <1>14, <1>15, <1>16, <1>17, <1>18, <1>19 DEF BridgeInv

\* No step of the bridge breaks what is known of it.
LEMMA BridgeStep == BridgeInv /\ Bridge!Next => BridgeInv'
<1> SUFFICES ASSUME BridgeInv, Bridge!Next PROVE BridgeInv'  OBVIOUS
<1>1. Ctl(ctl) /\ bridge.working \in Aims /\ goals \subseteq Aims
  BY DEF BridgeInv, BridgeTypes, Bridges
<1>2. CASE \E s \in Bridge!Sensors(ctl) :
             \E elapsed \in Bridge!Elapsed(ctl, s), over \in BOOLEAN :
               Bridge!Control(s, elapsed, over)
  BY <1>2, ControlKeeps
<1>3. CASE Bridge!StartCall  BY <1>3, CallKeeps
<1>4. CASE \E taken, intime \in BOOLEAN : Bridge!CallReturns(taken, intime)
  <2>1. PICK taken \in BOOLEAN, intime \in BOOLEAN : Bridge!CallReturns(taken, intime)
    BY <1>4
  <2> DEFINE yes == taken /\ intime
             e == [Bridge!Refused(bridge.working.id) EXCEPT !.accepted = yes]
  <2>2. /\ goals' \subseteq goals \cup {bridge.working}
        /\ bridge' = [bridge EXCEPT !.working = Bridge!NoGoal]
        /\ events' = Append(events, e) /\ UNCHANGED <<ctl, known, calls>>
    BY <2>1 DEF Bridge!CallReturns
  <2>3. e \in Letters /\ Told(ctl, known, e)
    <3>1. bridge.working.id \in Nat /\ yes \in BOOLEAN  BY <1>1 DEF Aims
    <3> HIDE DEF yes
    <3>2. e = [kind |-> "response", id |-> bridge.working.id, accepted |-> yes]
      BY DEF Bridge!Refused
    <3> HIDE DEF e
    <3>3. e \in Letters /\ e.kind = "response"  BY <3>1, <3>2 DEF Letters
    <3> QED  BY <3>3 DEF Told
  <2> HIDE DEF e
  <2> QED  BY <2>2, <2>3, QueueKeeps
<1>5. CASE Bridge!ContextArrives  BY <1>5, ContextKeeps
<1>6. CASE \E g \in goals, old \in BOOLEAN : Bridge!TargetArrives(g, old)
  <2>1. PICK g \in goals, old \in BOOLEAN : Bridge!TargetArrives(g, old)  BY <1>6
  <2> DEFINE e == [kind |-> "target", id |-> g.id, goal |-> g.goal, old |-> old]
  <2>2. events' = Bridge!Enqueued(e) /\ UNCHANGED <<ctl, bridge, known, goals, calls>>
    BY <2>1 DEF Bridge!TargetArrives
  <2>3. e \in Letters /\ Told(ctl, known, e)
    <3>1. g.id \in Nat /\ g.goal \in Kinds  BY <1>1 DEF Aims
    <3>2. About(ctl, g)  BY DEF BridgeInv
    <3>3. e \in Letters  BY <3>1 DEF Letters
    <3>4. About(ctl, e) /\ e.kind = "target"  BY <3>2 DEF About
    <3> QED  BY <3>3, <3>4 DEF Told
  <2> HIDE DEF e
  <2> QED  BY <2>2, <2>3, QueueKeeps
<1>7. CASE \E id \in known, state \in {"IDLE", "GOAL_REACHED"}, old \in BOOLEAN :
             (old => state = "IDLE") /\ Bridge!StatusArrives(id, state, old)
  <2>1. PICK id \in known, state \in {"IDLE", "GOAL_REACHED"}, old \in BOOLEAN :
               Bridge!StatusArrives(id, state, old)
    BY <1>7
  <2> DEFINE e == [kind |-> "status", id |-> id, state |-> state, old |-> old]
  <2>2. events' = Bridge!Enqueued(e) /\ UNCHANGED <<ctl, bridge, known, goals, calls>>
    BY <2>1 DEF Bridge!StatusArrives
  <2>3. e \in Letters /\ Told(ctl, known, e)
    <3>1. id \in Nat  BY DEF BridgeInv, BridgeTypes
    <3>2. e \in Letters /\ e.kind = "status" /\ e.id = id  BY <3>1 DEF Letters
    <3> QED  BY <3>2 DEF Told
  <2> HIDE DEF e
  <2> QED  BY <2>2, <2>3, QueueKeeps
<1>8. CASE \E command \in CommandValues : Bridge!CommandArrives(command)
  BY <1>1, <1>8, ArrivalsKeep, ControllerMoves DEF Bridge!CommandArrives
<1>9. CASE \E mission \in Missions : Bridge!MissionArrives(mission)
  BY <1>1, <1>9, SequenceKeeps, ControllerMoves DEF Bridge!MissionArrives
<1>10. CASE \E waypoint \in Singles : Bridge!SingleArrives(waypoint)
  BY <1>1, <1>10, SingleKeeps, ControllerMoves DEF Bridge!SingleArrives
<1>11. CASE Bridge!ResultArrives
  <2>1. PICK command : command = 0  OBVIOUS
  <2>2. Keeps(ctl, Bridge!ObserveCommand(ctl, command)) /\ Keeps(ctl, Bridge!AcceptResult(ctl))
    BY <1>1, ArrivalsKeep
  <2> QED  BY <1>11, <2>2, ControllerMoves DEF Bridge!ResultArrives
<1> QED
  BY <1>2, <1>3, <1>4, <1>5, <1>6, <1>7, <1>8, <1>9, <1>10, <1>11 DEF Bridge!Next

\* A bridge that starts, with a controller that has no request
LEMMA BridgeStarts ==
    ASSUME NEW c, Bridge!InitWith(c), Ctl(c), c.id = 0
    PROVE  BridgeInv
<1>1. /\ ctl = c /\ events = <<>> /\ known = {} /\ goals = {} /\ calls = <<>>
      /\ bridge = [desired |-> 0, permitted |-> FALSE, acknowledged |-> 0, dispatched |-> 0,
                   queued |-> FALSE, request |-> Bridge!NoGoal, working |-> Bridge!NoGoal,
                   timedOut |-> FALSE]
  BY DEF Bridge!InitWith
<1>2. <<>> \in Seq(Aims)  BY EmptySeq
<1>3. <<>> \in Seq(Letters)  BY EmptySeq
<1>4. Bridge!NoGoal \in Aims  BY DEF Aims, Kinds, Bridge!NoGoal
<1>5. bridge \in Bridges
  <2> DEFINE none == Bridge!NoGoal
  <2>1. none \in Aims  BY <1>4
  <2> HIDE DEF none
  <2>2. bridge = [desired |-> 0, permitted |-> FALSE, acknowledged |-> 0, dispatched |-> 0,
                  queued |-> FALSE, request |-> none, working |-> none, timedOut |-> FALSE]
    BY <1>1 DEF none
  <2> QED  BY <2>1, <2>2 DEF Bridges
<1>6. ctl.generation \in Nat /\ Ctl(ctl) /\ ctl.id = 0  BY <1>1 DEF Ctl
<1>7. bridge.desired = 0 /\ bridge.queued = FALSE /\ bridge.acknowledged = 0
      /\ bridge.request = Bridge!NoGoal /\ bridge.working = Bridge!NoGoal
  BY <1>1
<1>8. BridgeTypes
  <2>1. bridge.desired <= ctl.generation  BY <1>6, <1>7
  <2> QED  BY <1>1, <1>2, <1>3, <1>5, <1>6, <2>1 DEF BridgeTypes
<1>9. About(ctl, Bridge!NoGoal)  BY <1>6 DEF About, Bridge!NoGoal
<1>10. DOMAIN events = {} /\ DOMAIN calls = {}  BY <1>1
<1>11. Waiting(bridge, known, calls)  BY <1>7 DEF Waiting
<1> QED  BY <1>1, <1>7, <1>8, <1>9, <1>10, <1>11 DEF BridgeInv

\* Both controllers that TLC starts with are such ones.
LEMMA ControllersStart ==
    \A c \in {Bridge!InitController, Hover} : Ctl(c) /\ c.id = 0
<1> DEFINE i == Bridge!InitController
<1>1. <<>> \in Seq(Waypoints)  BY EmptySeq
<1>2. /\ DOMAIN i = CtlFields /\ i.raw = <<>> /\ i.index = 1 /\ i.final = Bridge!Here
      /\ i.setpoint = Bridge!Pose(Bridge!Here) /\ i.generation = 0 /\ i.id = 0
      /\ i.target = Bridge!Pose(Bridge!None) /\ i.phase = "BOOT_WAIT_ZERO"
  BY DEF Bridge!InitController, CtlFields
<1>3. Bridge!Pose(Bridge!Here).kind \in Kinds /\ Bridge!Here \in Kinds
  BY DEF Bridge!Pose, Kinds
<1> HIDE DEF i
<1>4. Ctl(i)  BY <1>1, <1>2, <1>3 DEF Ctl, Leading
<1> DEFINE two == <<w1, w2>>
           h == Hover
<1>5. two \in Seq(Waypoints)
  <2>1. w1 \in Waypoints /\ w2 \in Waypoints  BY BridgeConstants
  <2> QED  BY <2>1
<1> HIDE DEF two
<1>6. h = [i EXCEPT !.phase = "HOLDING", !.zero = TRUE, !.last = {1},
                    !.prestream = TRUE, !.origin = TRUE, !.raw = two]
  BY DEF Hover, i, two
<1> HIDE DEF h
<1>7. /\ DOMAIN h = CtlFields /\ h.raw = two /\ h.index = 1 /\ h.final = Bridge!Here
      /\ h.setpoint = Bridge!Pose(Bridge!Here) /\ h.generation = 0 /\ h.id = 0
      /\ h.target = Bridge!Pose(Bridge!None) /\ h.phase = "HOLDING"
  BY <1>2, <1>6 DEF CtlFields
<1>8. Ctl(h)  BY <1>3, <1>5, <1>7 DEF Ctl, Leading
<1> QED  BY <1>2, <1>4, <1>7, <1>8 DEF i, h

\* However late targets, statuses and answers come, and whenever commands, missions and
\* single targets do, the vehicle is led to the waypoint it is to go to, and a goal is
\* sent once and to a node that knows the request: for any missions, any number of tries
\* and any queue (planner_core.cpp, planner_bridge.cpp).
THEOREM GoalsInStep == PlanningSpec => []BridgeIsInStep
<1>1. PlanningInit => BridgeInv
  <2> SUFFICES ASSUME PlanningInit PROVE BridgeInv  OBVIOUS
  <2>1. Bridge!InitWith(Hover) \/ Bridge!InitWith(Bridge!InitController)
    BY DEF PlanningInit, Bridge!Init
  <2> QED  BY <2>1, ControllersStart, BridgeStarts
<1>2. BridgeInv /\ [PlanningNext]_planning => BridgeInv'
  <2> SUFFICES ASSUME BridgeInv, [PlanningNext]_planning PROVE BridgeInv'  OBVIOUS
  <2>1. UNCHANGED bridgeVars \/ Bridge!Next
    BY DEF PlanningNext, Moves, planning
  <2>2. CASE UNCHANGED bridgeVars
    BY <2>2 DEF bridgeVars, BridgeInv, BridgeTypes
  <2> QED  BY <2>1, <2>2, BridgeStep
<1>3. BridgeInv => BridgeIsInStep
  <2> SUFFICES ASSUME BridgeInv PROVE BridgeIsInStep  OBVIOUS
  <2>1. Bridge!TargetsLeadToWaypoint
    BY DEF BridgeInv, BridgeTypes, Ctl, Leading, Bridge!TargetsLeadToWaypoint
  <2>2. Bridge!GoalsAreSentOnce  BY DEF BridgeInv, Placed, Bridge!GoalsAreSentOnce
  <2> QED  BY <2>1, <2>2 DEF BridgeIsInStep
<1> QED  BY <1>1, <1>2, <1>3, PTL DEF PlanningSpec
-----------------------------------------------------------------------------
(* The guard.  What it remembers is the last command that was published,   *)
(* or nothing; a velocity is limited by the one before it, and by what can *)
(* stop before the reference.                                              *)

GuardInv ==
    /\ now \in Nat
    /\ \/ guard = Guard!Fresh /\ sent = Guard!NoCommand
       \/ /\ guard.stamp = sent.stamp /\ sent.stamp \in 1 .. now
          /\ guard.velocity = {sent.velocity} /\ sent.velocity \in Int

\* What the proofs need of the constants of the guard
LEMMA GuardConstants ==
    /\ Length \in Nat /\ MaxStamp \in Nat /\ MaxSpeed \in Nat /\ Acceleration \in Nat
    /\ WaypointStep \in Nat /\ Horizon \in Nat /\ MaxGap \in Nat /\ Clearance \in Nat
    /\ Acceleration >= 1
  BY PlanningAssumptions DEF Guard!GuardAssumption

\* The least and the greatest of a set of integers within bounds
LEMMA MinIs ==
    ASSUME NEW T, T \subseteq Int, T # {}, NEW low \in Int, \A x \in T : low <= x
    PROVE  Guard!Min(T) \in T /\ \A x \in T : Guard!Min(T) <= x
<1> DEFINE U == {x - low : x \in T}
<1>1. U # {}  OBVIOUS
<1>2. U \subseteq Nat
  <2> SUFFICES ASSUME NEW x \in T PROVE x - low \in Nat  OBVIOUS
  <2> QED  OBVIOUS
<1> HIDE DEF U
<1>3. PICK u \in U : \A y \in U : u <= y  BY <1>1, <1>2, Smallest
<1>4. PICK x \in T : u = x - low  BY DEF U
<1>5. ASSUME NEW y \in T PROVE x <= y
  <2>1. y - low \in U  BY DEF U
  <2>2. u <= y - low  BY <1>3, <2>1
  <2> QED  BY <1>4, <2>2
<1> QED  BY <1>5 DEF Guard!Min

\* The greatest number of a set that has a bound above
LEMMA MaxIs ==
    ASSUME NEW T, T \subseteq Int, T # {}, NEW high \in Int, \A x \in T : x <= high
    PROVE  Guard!Max(T) \in T /\ \A x \in T : x <= Guard!Max(T)
<1> DEFINE U == {high - x : x \in T}
<1>1. U # {}  OBVIOUS
<1>2. U \subseteq Nat
  <2> SUFFICES ASSUME NEW x \in T PROVE high - x \in Nat  OBVIOUS
  <2> QED  OBVIOUS
<1> HIDE DEF U
<1>3. PICK u \in U : \A y \in U : u <= y  BY <1>1, <1>2, Smallest
<1>4. PICK x \in T : u = high - x  BY DEF U
<1>5. ASSUME NEW y \in T PROVE x >= y
  <2>1. high - y \in U  BY DEF U
  <2>2. u <= high - y  BY <1>3, <2>1
  <2> QED  BY <1>4, <2>2
<1> QED  BY <1>5 DEF Guard!Max

\* Of two
LEMMA MinOfTwo ==
    ASSUME NEW a \in Int, NEW b \in Int
    PROVE  /\ Guard!Min({a, b}) \in Int /\ Guard!Min({a, b}) <= a /\ Guard!Min({a, b}) <= b
  BY DEF Guard!Min
\* The greater of two
LEMMA MaxOfTwo ==
    ASSUME NEW a \in Int, NEW b \in Int
    PROVE  /\ Guard!Max({a, b}) \in Int /\ Guard!Max({a, b}) >= a /\ Guard!Max({a, b}) >= b
  BY DEF Guard!Max

\* A quotient of natural numbers
LEMMA Quotient ==
    ASSUME NEW a \in Nat, NEW b \in Nat, b >= 1
    PROVE  a \div b \in Nat
  OBVIOUS

\* A slewed velocity, and a limited one
Flyable(v, p, d, dt) ==
    /\ v \in Int
    /\ Guard!Abs(v - p) <= Acceleration * dt
    /\ Guard!Abs(v) > Guard!Abs(p) => (0 <= v /\ v <= d) \/ (d <= v /\ v <= 0)

\* A velocity that is slewed to the desired one keeps the limits.
LEMMA SlewedIs ==
    ASSUME NEW p \in Int, NEW d \in Int, NEW dt \in Nat, dt >= 1,
           NEW v \in Guard!Slewed(p, d, dt)
    PROVE  Flyable(v, p, d, dt)
<1>1. PICK D \in Nat : D = Acceleration * dt  BY GuardConstants
<1>2. D >= 1  BY <1>1, GuardConstants
<1> DEFINE way == Guard!Towards(p, d)
<1>3. way \in {-1, 0, 1} /\ way * Acceleration * dt = way * D
  <2>1. way \in {-1, 0, 1}  BY DEF Guard!Towards
  <2> HIDE DEF way
  <2> QED  BY <1>1, <2>1, GuardConstants
<1>4. \/ v = d /\ Guard!Abs(d - p) <= D
      \/ v = p + way * D /\ ~(Guard!Abs(d - p) <= D)
  BY <1>1, <1>3 DEF Guard!Slewed
<1>5. (p < d => way = 1) /\ (p > d => way = -1) /\ (p = d => way = 0)
  BY DEF Guard!Towards
<1> HIDE DEF way
<1>6. \/ v = d /\ Guard!Abs(d - p) <= D
      \/ p < d /\ v = p + D /\ ~(Guard!Abs(d - p) <= D)
      \/ p > d /\ v = p - D /\ ~(Guard!Abs(d - p) <= D)
  <2>1. CASE p = d  BY <1>2, <1>4, <2>1 DEF Guard!Abs
  <2>2. CASE p < d  BY <1>4, <1>5, <2>2
  <2>3. CASE p > d  BY <1>4, <1>5, <2>3
  <2> QED  BY <2>1, <2>2, <2>3
<1>7. /\ v \in Int /\ Guard!Abs(v - p) <= D
      /\ Guard!Abs(v) > Guard!Abs(p) => (0 <= v /\ v <= d) \/ (d <= v /\ v <= 0)
  BY <1>2, <1>6 DEF Guard!Abs
<1> QED  BY <1>1, <1>7 DEF Flyable

\* So does one whose braking is limited.
LEMMA LimitedIs ==
    ASSUME NEW p \in Int, NEW d \in Int, NEW dt \in Nat, dt >= 1,
           NEW v \in Guard!Limited(p, d, dt)
    PROVE  Flyable(v, p, d, dt)
<1>1. PICK D \in Nat : D = Acceleration * dt  BY GuardConstants
<1> DEFINE dir == Guard!Towards(0, d)
           along == p * dir
           size == Guard!Abs(d)
           high == Guard!Min({size, along + D})
           low == Guard!Max({0, along - D})
<1>2. CASE v \in Guard!Slewed(p, d, dt)
  BY <1>2, SlewedIs
<1>3. CASE d = 0 /\ Guard!Abs(p) <= D /\ v = 0
  BY <1>1, <1>3 DEF Guard!Abs, Flyable
<1>4. CASE d # 0 /\ ~(high < 0 \/ low > high) /\ v = dir * high
  <2>1. dir \in {-1, 1} /\ (dir = 1 <=> d > 0) /\ (dir = -1 <=> d < 0)
    BY <1>4 DEF Guard!Towards
  <2>2. along \in Int /\ (dir = 1 => along = p) /\ (dir = -1 => along = -p)
    BY <2>1
  <2>3. size \in Int /\ (d > 0 => size = d) /\ (d < 0 => size = -d)  BY DEF Guard!Abs
  <2>4. high \in Int /\ high <= size /\ high <= along + D
    <3> HIDE DEF along, size
    <3>1. along + D \in Int  BY <2>2
    <3> QED  BY <2>3, <3>1, MinOfTwo
  <2>5. low \in Int /\ low >= 0 /\ low >= along - D
    <3> HIDE DEF along
    <3>1. along - D \in Int /\ 0 \in Int  BY <2>2
    <3> QED  BY <3>1, MaxOfTwo
  <2> HIDE DEF high, low, dir, along, size
  <2>6. (dir = 1 => v = high) /\ (dir = -1 => v = -high)
    BY <1>4, <2>1, <2>4
  <2>7. 0 <= high /\ low <= high  BY <1>4, <2>4, <2>5
  <2>8. /\ v \in Int /\ Guard!Abs(v - p) <= D
        /\ Guard!Abs(v) > Guard!Abs(p) => (0 <= v /\ v <= d) \/ (d <= v /\ v <= 0)
    <3>1. CASE dir = 1
      BY <2>1, <2>2, <2>3, <2>4, <2>5, <2>6, <2>7, <3>1 DEF Guard!Abs
    <3>2. CASE dir = -1
      BY <2>1, <2>2, <2>3, <2>4, <2>5, <2>6, <2>7, <3>2 DEF Guard!Abs
    <3> QED  BY <2>1, <3>1, <3>2
  <2> QED  BY <1>1, <2>8 DEF Flyable
<1>5. \/ v \in Guard!Slewed(p, d, dt)
      \/ d = 0 /\ Guard!Abs(p) <= D /\ v = 0
      \/ d # 0 /\ ~(high < 0 \/ low > high) /\ v = dir * high
  <2>1. CASE d = 0
    BY <1>1, <2>1 DEF Guard!Limited
  <2>2. CASE d # 0
    BY <1>1, <2>2 DEF Guard!Limited
  <2> QED  BY <2>1, <2>2
<1> QED  BY <1>2, <1>3, <1>4, <1>5

\* The velocity that is desired goes to the reference, and can stop before it.
Heading(d, s, reference, dt) ==
    \E m \in Nat :
        /\ d = Guard!Towards(s.at, reference) * m
        /\ m * dt <= Guard!Abs(reference - s.at)
        /\ m * m + 2 * Acceleration * dt * m <= 2 * Acceleration * Guard!Abs(reference - s.at)

\* The stopping speed can be braked within the distance.
LEMMA StoppingIs ==
    ASSUME NEW distance \in Nat, NEW dt \in Nat, dt >= 1
    PROVE  LET v == Guard!StoppingSpeed(distance, dt)
           IN v \in Nat /\ v * v + 2 * Acceleration * dt * v <= 2 * Acceleration * distance
<1> DEFINE T == {v \in 0 .. MaxSpeed :
                   v * v + 2 * Acceleration * dt * v <= 2 * Acceleration * distance}
<1>1. T \subseteq 0 .. MaxSpeed  OBVIOUS
<1>2. 0 \in T
  <2>1. 0 * 0 + 2 * Acceleration * dt * 0 = 0  BY GuardConstants
  <2>2. 0 <= 2 * Acceleration * distance  BY GuardConstants
  <2> QED  BY <2>1, <2>2, GuardConstants
<1>3. \A v \in T : v * v + 2 * Acceleration * dt * v <= 2 * Acceleration * distance
  OBVIOUS
<1>4. Guard!StoppingSpeed(distance, dt) = Guard!Max(T)  BY DEF Guard!StoppingSpeed
<1> HIDE DEF T
<1>5. T \subseteq Int /\ T # {} /\ MaxSpeed \in Int /\ \A v \in T : v <= MaxSpeed
  BY <1>1, <1>2, GuardConstants
<1>6. Guard!Max(T) \in T  BY <1>5, MaxIs
<1>7. Guard!Max(T) \in Nat
  <2> DEFINE v == Guard!Max(T)
  <2>1. v \in 0 .. MaxSpeed  BY <1>1, <1>6
  <2> HIDE DEF v
  <2>2. v \in Nat  BY <2>1, GuardConstants
  <2> QED  BY <2>2 DEF v
<1> QED  BY <1>3, <1>4, <1>6, <1>7

\* The speed that is allowed is a natural number.
LEMMA SpeedIs ==
    ASSUME NEW g, NEW dt \in Nat, dt >= 1,
           g.stamp = 0 \/ \E p \in Int : g.velocity = {p}
    PROVE  Guard!Speed(g, dt) \in Nat
<1> DEFINE faster == IF g.stamp = 0 THEN Acceleration
                     ELSE Guard!Max({0} \cup {Guard!Abs(v) : v \in g.velocity})
                            + Acceleration * dt
<1>1. faster \in Nat
  <2>1. CASE g.stamp = 0  BY <2>1, GuardConstants
  <2>2. CASE g.stamp # 0
    <3>1. PICK p \in Int : g.velocity = {p}  BY <2>2
    <3> DEFINE a == Guard!Abs(p)
    <3>2. a \in Nat  BY DEF Guard!Abs
    <3>3. {0} \cup {Guard!Abs(v) : v \in g.velocity} = {0, a}  BY <3>1
    <3> HIDE DEF a
    <3>4. Guard!Max({0, a}) \in Nat
      <4>1. 0 \in Int /\ a \in Int  BY <3>2
      <4> QED  BY <4>1, MaxOfTwo
    <3>5. PICK D \in Nat : D = Acceleration * dt  BY GuardConstants
    <3>6. faster = Guard!Max({0, a}) + D  BY <2>2, <3>3, <3>5
    <3> QED  BY <3>4, <3>5, <3>6
  <2> QED  BY <2>1, <2>2
<1>2. Guard!Speed(g, dt) = Guard!Min({MaxSpeed, faster})  BY DEF Guard!Speed
<1> HIDE DEF faster
<1>3. Guard!Min({MaxSpeed, faster}) \in {MaxSpeed, faster}
  <2>1. {MaxSpeed, faster} \subseteq Int /\ {MaxSpeed, faster} # {} /\ 0 \in Int
        /\ \A x \in {MaxSpeed, faster} : 0 <= x
    BY <1>1, GuardConstants
  <2> QED  BY <2>1, MinIs
<1> QED  BY <1>1, <1>2, <1>3, GuardConstants

\* The desired velocity is one that stops before the reference.
LEMMA DesiredIs ==
    ASSUME NEW g, NEW s, NEW reference \in Int, NEW dt \in Nat, dt >= 1,
           s.at \in Int, s.velocity \in Int, Horizon > Guard!Inflation(s),
           g.stamp = 0 \/ \E p \in Int : g.velocity = {p}
    PROVE  Heading(Guard!Desired(g, s, reference, dt), s, reference, dt)
<1> DEFINE distance == Guard!Abs(reference - s.at)
           a == Guard!Speed(g, dt)
           b == Guard!StoppingSpeed(distance, dt)
           c == WaypointStep \div dt
           e == (Horizon - Guard!Inflation(s)) \div dt
           f == distance \div dt
           T == {a, b, c, e, f}
           m == Guard!Min(T)
<1>1. distance \in Nat  BY DEF Guard!Abs
<1>2. a \in Nat  BY SpeedIs
<1>3. b \in Nat /\ b * b + 2 * Acceleration * dt * b <= 2 * Acceleration * distance
  <2> HIDE DEF distance
  <2> QED  BY <1>1, StoppingIs
<1>4. c \in Nat  BY GuardConstants, Quotient
<1>5. e \in Nat
  <2>1. Guard!Inflation(s) \in Int
    <3>1. PICK q \in Int : q = s.velocity * s.velocity  OBVIOUS
    <3>2. q \div (2 * Acceleration) \in Int  BY GuardConstants
    <3> QED  BY <3>1, <3>2, GuardConstants DEF Guard!Inflation
  <2>2. Horizon - Guard!Inflation(s) \in Nat  BY <2>1, GuardConstants
  <2> HIDE DEF e
  <2> QED  BY <2>2, Quotient DEF e
<1>6. f \in Nat /\ f * dt <= distance
  <2> HIDE DEF distance
  <2> QED  BY <1>1
<1>7. Guard!Desired(g, s, reference, dt) = Guard!Towards(s.at, reference) * m
  BY DEF Guard!Desired
<1>8. m \in Nat /\ m <= b /\ m <= f
  <2> HIDE DEF a, b, c, e, f
  <2>1. T \subseteq Nat /\ b \in T /\ f \in T  BY <1>2, <1>3, <1>4, <1>5, <1>6
  <2> HIDE DEF T
  <2>2. T \subseteq Int /\ T # {} /\ 0 \in Int /\ \A x \in T : 0 <= x  BY <2>1
  <2>3. m \in T /\ \A x \in T : m <= x  BY <2>2, MinIs
  <2> QED  BY <2>1, <2>3
<1> HIDE DEF m, b, f, distance
<1>9. m * dt <= distance
  <2>1. m * dt <= f * dt  BY <1>6, <1>8
  <2> QED  BY <1>1, <1>6, <1>8, <2>1
<1>10. m * m + 2 * Acceleration * dt * m <= 2 * Acceleration * distance
  <2>1. m * m <= b * b  BY <1>3, <1>8
  <2>2. PICK k \in Nat : k = 2 * Acceleration * dt  BY GuardConstants
  <2>3. k * m <= k * b  BY <1>3, <1>8, <2>2
  <2>4. PICK x \in Nat : x = 2 * Acceleration * distance  BY <1>1, GuardConstants
  <2> QED  BY <1>3, <1>8, <2>1, <2>2, <2>3, <2>4
<1> QED  BY <1>7, <1>8, <1>9, <1>10 DEF Heading, distance

\* A velocity faster than the one before it stops before the reference.
LEMMA StopsBefore ==
    ASSUME NEW s, NEW reference \in Int, NEW dt \in Nat, dt >= 1, s.at \in Int,
           NEW d \in Int, Heading(d, s, reference, dt),
           NEW v \in Int, (0 <= v /\ v <= d) \/ (d <= v /\ v <= 0)
    PROVE  v * v <= 2 * Acceleration * Guard!Abs(reference - s.at - v * dt)
<1> DEFINE distance == Guard!Abs(reference - s.at)
           way == Guard!Towards(s.at, reference)
           n == Guard!Abs(v)
<1>1. PICK m \in Nat :
        /\ d = way * m
        /\ m * dt <= distance
        /\ m * m + 2 * Acceleration * dt * m <= 2 * Acceleration * distance
  BY DEF Heading
<1>2. way \in {-1, 0, 1} /\ reference - s.at = way * distance /\ distance \in Nat
  BY DEF Guard!Abs, Guard!Towards
<1> HIDE DEF way, distance
<1>3. n \in Nat /\ n <= m /\ v = way * n
  BY <1>1, <1>2 DEF Guard!Abs
<1> HIDE DEF n
<1>4. n * dt <= distance
  <2>1. n * dt <= m * dt  BY <1>3
  <2> QED  BY <1>1, <1>2, <1>3, <2>1
<1>5. PICK A \in Nat : A = 2 * Acceleration  BY GuardConstants
<1>6. n * n <= A * (distance - n * dt)
  <2>1. n * n <= m * m  BY <1>3
  <2>2. PICK k \in Nat : k = A * dt  OBVIOUS
  <2>3. k * n <= k * m  BY <1>3
  <2>4. m * m + k * m <= A * distance  BY <1>1, <1>5, <2>2
  <2>5. n * n + k * n <= A * distance
    <3>1. PICK x \in Nat : x = A * distance  BY <1>2
    <3> QED  BY <1>3, <2>1, <2>3, <2>4, <3>1
  <2>6. A * (distance - n * dt) = A * distance - k * n
    <3>1. A * (distance - n * dt) = A * distance - A * (n * dt)  BY <1>2, <1>3
    <3>2. A * (n * dt) = (A * dt) * n  BY <1>3
    <3> QED  BY <2>2, <3>1, <3>2
  <2>7. A * distance \in Nat /\ k * n \in Nat /\ n * n \in Nat  BY <1>2, <1>3
  <2> QED  BY <2>5, <2>6, <2>7
<1>7. v * v <= n * n
  BY <1>2, <1>3
<1>8. Guard!Abs(reference - s.at - v * dt) >= distance - n * dt
  <2>1. PICK q \in Nat : q = n * dt  BY <1>3
  <2>2. v * dt = way * q  BY <1>2, <1>3, <2>1
  <2>3. reference - s.at - v * dt = way * distance - way * q  BY <1>2, <2>2
  <2>4. PICK z \in Int : z = reference - s.at - v * dt  OBVIOUS
  <2>5. z = distance - q \/ z = q - distance \/ (z = 0 /\ reference - s.at = 0)
    <3>1. CASE way = 1  BY <1>2, <2>1, <2>3, <2>4, <3>1
    <3>2. CASE way = -1  BY <1>2, <2>1, <2>3, <2>4, <3>2
    <3>3. CASE way = 0
      <4>1. way * distance = 0 /\ way * q = 0  BY <1>2, <3>3
      <4>2. z = 0 - 0 /\ reference - s.at = 0  BY <1>2, <2>3, <2>4, <4>1
      <4> QED  BY <4>2
    <3> QED  BY <1>2, <3>1, <3>2, <3>3
  <2>6. reference - s.at = 0 => distance = 0  BY DEF Guard!Abs, distance
  <2>7. Guard!Abs(z) >= distance - q  BY <1>2, <1>4, <2>1, <2>5, <2>6 DEF Guard!Abs
  <2> QED  BY <2>1, <2>4, <2>7
<1>9. PICK left \in Int : left = Guard!Abs(reference - s.at - v * dt)
  BY DEF Guard!Abs
<1>10. A * (distance - n * dt) <= A * left
  <2>1. PICK q \in Int : q = distance - n * dt  BY <1>2, <1>3
  <2> QED  BY <1>8, <1>9, <2>1
<1> QED
  <2>1. v * v \in Int /\ n * n \in Int /\ A * (distance - n * dt) \in Int /\ A * left \in Int
    BY <1>2, <1>3
  <2> QED  BY <1>5, <1>6, <1>7, <1>9, <1>10, <2>1

\* A command that is published for a snapshot, after the last one
LEMMA CommandIs ==
    ASSUME GuardInv, NEW s, NEW reference \in Int, s.at \in Int, s.velocity \in Int,
           s.stamp \in Int, s.stamp > now,
           NEW v \in Guard!Commands(guard, s, reference)
    PROVE  LET dt == Guard!Gap(guard, s)
           IN /\ v \in Int /\ dt \in 1 .. MaxGap
              /\ guard.stamp # 0 =>
                   /\ dt = s.stamp - sent.stamp
                   /\ Guard!Abs(v - sent.velocity) <= Acceleration * dt
                   /\ Guard!Abs(v) > Guard!Abs(sent.velocity) =>
                        v * v <= 2 * Acceleration * Guard!Abs(reference - s.at - v * dt)
<1> DEFINE dt == Guard!Gap(guard, s)
           p == Guard!Previous(guard, s)
           d == Guard!Desired(guard, s, reference, dt)
<1>1. dt \in 1 .. MaxGap /\ Horizon > Guard!Inflation(s) /\ v \in Guard!Limited(p, d, dt)
  BY DEF Guard!Commands, Guard!ReferencePasses
<1>2. dt \in Nat /\ dt >= 1
  <2> HIDE DEF dt
  <2> QED  BY <1>1, GuardConstants
<1>3. p \in Int /\ (guard.stamp # 0 => p = sent.velocity /\ dt = s.stamp - sent.stamp)
  <2>1. CASE guard = Guard!Fresh /\ sent = Guard!NoCommand
    <3>1. guard.stamp = 0 /\ guard.velocity = {}  BY <2>1 DEF Guard!Fresh
    <3> QED  BY <3>1 DEF Guard!Previous
  <2>2. CASE guard.velocity = {sent.velocity} /\ sent.velocity \in Int
             /\ guard.stamp = sent.stamp
    BY <2>2 DEF Guard!Previous, Guard!Gap
  <2> QED  BY <2>1, <2>2 DEF GuardInv
<1>4. guard.stamp = 0 \/ \E q \in Int : guard.velocity = {q}
  BY DEF GuardInv, Guard!Fresh
<1> HIDE DEF p, dt
<1>5. Heading(d, s, reference, dt)
  BY <1>1, <1>2, <1>4, DesiredIs
<1> HIDE DEF d
<1>6. d \in Int
  <2>1. Guard!Towards(s.at, reference) \in Int  BY DEF Guard!Towards
  <2> QED  BY <1>5, <2>1 DEF Heading
<1>7. Flyable(v, p, d, dt)  BY <1>1, <1>2, <1>3, <1>6, LimitedIs
<1>8. v \in Int /\ Guard!Abs(v - p) <= Acceleration * dt  BY <1>7 DEF Flyable
<1>9. ASSUME Guard!Abs(v) > Guard!Abs(p)
      PROVE  v * v <= 2 * Acceleration * Guard!Abs(reference - s.at - v * dt)
  <2>1. (0 <= v /\ v <= d) \/ (d <= v /\ v <= 0)  BY <1>7, <1>9 DEF Flyable
  <2> QED  BY <1>2, <1>5, <1>6, <1>8, <2>1, StopsBefore
<1> QED  BY <1>1, <1>3, <1>8, <1>9 DEF dt

\* A snapshot is handled, or the guard begins anew.
LEMMA PlanKeeps ==
    ASSUME GuardInv, NEW s, NEW reference \in Int, NEW commits, s.at \in Int,
           s.velocity \in Int, s.stamp \in Int, Guard!Plan(s, reference, commits)
    PROVE  GuardInv' /\ Guard!CommandIsFlyable
<1>1. s.stamp > now /\ now' = s.stamp /\ now \in Nat  BY DEF Guard!Plan, GuardInv
<1>2. CASE UNCHANGED <<guard, sent>>
  <2>1. GuardInv'  BY <1>1, <1>2 DEF GuardInv
  <2> QED  BY <1>2, <2>1 DEF Guard!CommandIsFlyable
<1>3. CASE \E v \in Guard!Commands(guard, s, reference) :
             /\ guard' = Guard!Finished(guard, s, v)
             /\ sent' = [stamp |-> s.stamp, from |-> s.at, velocity |-> v,
                         reference |-> reference, gap |-> Guard!Gap(guard, s)]
  <2>1. PICK v \in Guard!Commands(guard, s, reference) :
             /\ guard' = Guard!Finished(guard, s, v)
             /\ sent' = [stamp |-> s.stamp, from |-> s.at, velocity |-> v,
                         reference |-> reference, gap |-> Guard!Gap(guard, s)]
    BY <1>3
  <2> DEFINE dt == Guard!Gap(guard, s)
  <2>2. /\ v \in Int /\ dt \in 1 .. MaxGap
        /\ guard.stamp # 0 =>
             /\ dt = s.stamp - sent.stamp
             /\ Guard!Abs(v - sent.velocity) <= Acceleration * dt
             /\ Guard!Abs(v) > Guard!Abs(sent.velocity) =>
                  v * v <= 2 * Acceleration * Guard!Abs(reference - s.at - v * dt)
    BY <1>1, CommandIs
  <2> HIDE DEF dt
  <2>3. /\ sent'.stamp = s.stamp /\ sent'.velocity = v /\ sent'.reference = reference
        /\ sent'.from = s.at /\ sent'.gap = dt
    BY <2>1 DEF dt
  <2>4. GuardInv'
    <3>1. guard'.stamp = s.stamp /\ guard'.velocity = {v}  BY <2>1 DEF Guard!Finished
    <3> QED  BY <1>1, <2>2, <2>3, <3>1 DEF GuardInv
  <2>5. ASSUME sent.stamp # 0 PROVE guard.stamp # 0
    BY <2>5 DEF GuardInv, Guard!NoCommand
  <2>6. dt <= MaxGap  BY <2>2, GuardConstants
  <2>7. Guard!CommandIsFlyable
    BY <2>2, <2>3, <2>5, <2>6 DEF Guard!CommandIsFlyable
  <2> QED  BY <2>4, <2>7
<1> QED
  <2>1. Guard!Commands(guard, s, reference) = {} =>  UNCHANGED <<guard, sent>>
    BY DEF Guard!Plan
  <2>2. ~commits /\ Guard!Commands(guard, s, reference) # {} => UNCHANGED <<guard, sent>>
    BY DEF Guard!Plan, Guard!Kept
  <2>3. commits = TRUE /\ Guard!Commands(guard, s, reference) # {} =>
           \E v \in Guard!Commands(guard, s, reference) :
             /\ guard' = Guard!Finished(guard, s, v)
             /\ sent' = [stamp |-> s.stamp, from |-> s.at, velocity |-> v,
                         reference |-> reference, gap |-> Guard!Gap(guard, s)]
    BY DEF Guard!Plan
  <2> QED  BY <1>2, <1>3, <2>1, <2>2, <2>3

\* Every command is flyable, and the guard remembers the last one.
LEMMA GuardStep ==
    GuardInv /\ [Guard!Next]_Guard!vars => GuardInv' /\ [Guard!CommandIsFlyable]_Guard!vars
<1> SUFFICES ASSUME GuardInv, [Guard!Next]_Guard!vars
             PROVE  GuardInv' /\ [Guard!CommandIsFlyable]_Guard!vars
  OBVIOUS
<1>1. CASE UNCHANGED Guard!vars
  BY <1>1 DEF Guard!vars, GuardInv
<1>2. CASE Guard!Reset
  <2>1. GuardInv'  BY <1>2 DEF Guard!Reset, GuardInv
  <2>2. Guard!CommandIsFlyable
    BY <1>2 DEF Guard!Reset, Guard!CommandIsFlyable, Guard!NoCommand
  <2> QED  BY <2>1, <2>2
<1>3. CASE \E time \in now + 1 .. Guard!Min({MaxStamp, now + MaxGap + 1}), at \in Guard!Cells,
              velocity \in Guard!Velocities, points \in Guard!Clouds, reference \in Guard!Cells,
              commits \in BOOLEAN :
            Guard!Plan([stamp |-> time, at |-> at, velocity |-> velocity, cloud |-> points],
                       reference, commits)
  <2>1. PICK time \in now + 1 .. Guard!Min({MaxStamp, now + MaxGap + 1}), at \in Guard!Cells,
              velocity \in Guard!Velocities, points \in Guard!Clouds, reference \in Guard!Cells,
              commits \in BOOLEAN :
            Guard!Plan([stamp |-> time, at |-> at, velocity |-> velocity, cloud |-> points],
                       reference, commits)
    BY <1>3
  <2> DEFINE s == [stamp |-> time, at |-> at, velocity |-> velocity, cloud |-> points]
  <2>2. time \in Int
    <3> DEFINE bound == Guard!Min({MaxStamp, now + MaxGap + 1})
    <3>1. now + MaxGap + 1 \in Int /\ MaxStamp \in Int  BY GuardConstants DEF GuardInv
    <3>2. bound \in Int  BY <3>1, MinOfTwo
    <3> HIDE DEF bound
    <3> QED  BY <3>1, <3>2 DEF GuardInv
  <2>3. at \in Int /\ reference \in Int /\ velocity \in Int
    BY GuardConstants DEF Guard!Cells, Guard!Velocities
  <2>4. s.stamp \in Int /\ s.at \in Int /\ s.velocity \in Int  BY <2>2, <2>3
  <2>5. Guard!Plan(s, reference, commits)  BY <2>1
  <2> HIDE DEF s
  <2>6. GuardInv' /\ Guard!CommandIsFlyable  BY <2>3, <2>4, <2>5, PlanKeeps
  <2> QED  BY <2>6
<1> QED  BY <1>1, <1>2, <1>3 DEF Guard!Next

-----------------------------------------------------------------------------
(* The path service.  Its curve is the path of the answer it gave last.      *)

CurveInv ==
    curve # <<>> =>
        /\ answer.success = TRUE /\ answer.path = curve
        /\ curve[Len(curve)] = aim /\ stamp = request.stamp

\* The seed of a request is the path of the answer before it.
LEMMA SeedStep ==
    CurveInv /\ [Ego!Next]_Ego!egoVars => CurveInv' /\ [Ego!SeedFollowsAnswer]_Ego!egoVars
<1> SUFFICES ASSUME CurveInv, [Ego!Next]_Ego!egoVars
             PROVE  CurveInv' /\ [Ego!SeedFollowsAnswer]_Ego!egoVars
  OBVIOUS
<1>1. CASE UNCHANGED Ego!egoVars
  BY <1>1 DEF Ego!egoVars, CurveInv
<1>2. CASE \E r \in Ego!Requests : Ego!Plan(r)
  <2>1. PICK r \in Ego!Requests : Ego!Plan(r)  BY <1>2
  <2>2. request' = r  BY <2>1 DEF Ego!Plan
  <2>3. CurveInv'
    <3>1. PICK local, late : IF Ego!Plans(r, local, late) THEN Ego!Succeed(r, local) ELSE Ego!Fail
      BY <2>1 DEF Ego!Plan
    <3>2. CASE Ego!Plans(r, local, late) /\ Ego!Succeed(r, local)
      <4>1. local[Len(local)] = Ego!Target(r)  BY <3>2 DEF Ego!Plans, Ego!Audited
      <4>2. /\ curve' = local /\ aim' = Ego!Target(r) /\ stamp' = r.stamp
            /\ answer'.success = TRUE /\ answer'.path = local
        BY <3>2 DEF Ego!Succeed
      <4> QED  BY <2>2, <4>1, <4>2 DEF CurveInv
    <3>3. CASE Ego!Fail
      BY <3>3 DEF Ego!Fail, CurveInv
    <3> QED  BY <3>1, <3>2, <3>3
  <2>4. ASSUME Len(seed') > 2 PROVE Ego!ContinuesLast(r)
    <3>1. seed' = <<>> \/ seed' = Ego!Seed(r)  BY <2>1 DEF Ego!Plan
    <3>2. CASE seed' = <<>>
      <4>1. Len(<<>>) = 0  OBVIOUS
      <4> QED  BY <2>4, <3>2, <4>1
    <3>3. CASE ~Ego!ContinuesLast(r) /\ seed' = Ego!Seed(r)
      <4>1. seed' = <<r.start, Ego!Target(r)>>  BY <3>3 DEF Ego!Seed
      <4>2. Len(<<r.start, Ego!Target(r)>>) = 2  OBVIOUS
      <4> QED  BY <2>4, <4>1, <4>2
    <3> QED  BY <3>1, <3>2, <3>3
  <2>5. ASSUME Ego!ContinuesLast(r)
        PROVE  /\ answer.success
               /\ answer.path[Len(answer.path)] = Ego!Target(request')
               /\ request'.stamp - request.stamp < SeedAge
    <3>1. Len(curve) > 2 /\ aim = Ego!Target(r) /\ r.stamp - stamp < SeedAge
      BY <2>5 DEF Ego!ContinuesLast
    <3>2. curve # <<>>
      <4>1. Len(<<>>) = 0  OBVIOUS
      <4> QED  BY <3>1, <4>1
    <3> QED  BY <2>2, <3>1, <3>2 DEF CurveInv
  <2>6. Ego!SeedFollowsAnswer  BY <2>4, <2>5 DEF Ego!SeedFollowsAnswer
  <2> QED  BY <2>3, <2>6
<1> QED  BY <1>1, <1>2 DEF Ego!Next

\* The path service moves as it does alone, on the requests of the instance.
LEMMA PathMoves == [PlanningNext]_planning => [Ego!Next]_Ego!egoVars
<1> SUFFICES ASSUME [PlanningNext]_planning PROVE [Ego!Next]_Ego!egoVars  OBVIOUS
<1>1. CASE \E r \in Ego!Requests :
              /\ (r.usable /\ r.slow) \/ r.stamp = 2
              /\ r.stamp > request.stamp /\ Ego!Plan(r)
  BY <1>1 DEF Ego!Next
<1>2. CASE UNCHANGED egoVars  BY <1>2 DEF egoVars, Ego!egoVars
<1> QED  BY <1>1, <1>2 DEF PlanningNext, Moves, planning

\* A command that follows another one is within what the vehicle can accelerate, and one
\* that speeds it up stops before its reference, whatever was planned and not published;
\* and the optimizer goes on only from the path of the answer before: for any speeds,
\* distances and times (trajectory_guard.py, ego_node.cpp).
THEOREM FlownSafely == PlanningSpec => CommandsAreFlyable
<1>1. PlanningInit => GuardInv /\ CurveInv
  BY DEF PlanningInit, Guard!Init, Ego!Init, GuardInv, CurveInv
<1>2. [PlanningNext]_planning => [Guard!Next]_Guard!vars
  BY DEF PlanningNext, Moves, planning, guardVars, Guard!vars
<1>3. GuardInv /\ [PlanningNext]_planning => GuardInv' /\ [Guard!CommandIsFlyable]_Guard!vars
  BY <1>2, GuardStep
<1>4. CurveInv /\ [PlanningNext]_planning => CurveInv' /\ [Ego!SeedFollowsAnswer]_Ego!egoVars
  BY PathMoves, SeedStep
<1> QED
  BY <1>1, <1>3, <1>4, PTL
     DEF PlanningSpec, CommandsAreFlyable, Guard!CommandsAreFlyable, Ego!SeedIsCertified
-----------------------------------------------------------------------------
(* The paths.  segment() samples a chord every half reserve, or closer, and  *)
(* a sample passes when no obstacle is in its cell or in one that is within  *)
(* the inflation of it.  Cells are no further apart than their points, so    *)
(* the sample is the inflation away from every obstacle; a tenth of the      *)
(* chord is a quarter of the reserve away from a sample at most, so it is    *)
(* the clearance away.  Points outside the grid are beyond the radius.       *)

\* The inequality of Cauchy and Schwarz, for triples of integers
LEMMA CauchySchwarz ==
    ASSUME NEW a \in Int, NEW b \in Int, NEW c \in Int,
           NEW x \in Int, NEW y \in Int, NEW z \in Int
    PROVE  (a * x + b * y + c * z) * (a * x + b * y + c * z)
             <= (a * a + b * b + c * c) * (x * x + y * y + z * z)
<1> DEFINE p == a * y - b * x
           q == a * z - c * x
           r == b * z - c * y
           dot == a * x + b * y + c * z
           s == a * a + b * b + c * c
           t == x * x + y * y + z * z
<1>1. s * t = dot * dot + p * p + q * q + r * r  OBVIOUS
<1>2. p \in Int /\ q \in Int /\ r \in Int /\ dot \in Int  OBVIOUS
<1> HIDE DEF p, q, r, dot
<1>3. p * p >= 0 /\ q * q >= 0 /\ r * r >= 0  BY <1>2
<1>4. p * p \in Int /\ q * q \in Int /\ r * r \in Int /\ dot * dot \in Int  BY <1>2
<1>5. dot * dot <= s * t  BY <1>1, <1>3, <1>4
<1> QED  BY <1>5 DEF dot

\* The side of a triangle is no shorter than the others leave it.
LEMMA Triangle ==
    ASSUME NEW a \in Int, NEW b \in Int, NEW c \in Int,
           NEW x \in Int, NEW y \in Int, NEW z \in Int, NEW u \in Nat, NEW w \in Nat,
           x * x + y * y + z * z <= w * w,
           a * a + b * b + c * c < u * u
    PROVE  (a - x) * (a - x) + (b - y) * (b - y) + (c - z) * (c - z) < (u + w) * (u + w)
<1> DEFINE dot == a * x + b * y + c * z
           s == a * a + b * b + c * c
           t == x * x + y * y + z * z
<1>1. s \in Nat /\ t \in Nat /\ dot \in Int
  <2>1. a * a \in Nat /\ b * b \in Nat /\ c * c \in Nat  OBVIOUS
  <2>2. x * x \in Nat /\ y * y \in Nat /\ z * z \in Nat  OBVIOUS
  <2> QED  BY <2>1, <2>2
<1>2. dot * dot <= s * t  BY CauchySchwarz
<1>3. (a - x) * (a - x) + (b - y) * (b - y) + (c - z) * (c - z) = s - 2 * dot + t
  OBVIOUS
<1>4. s < u * u /\ t <= w * w  OBVIOUS
<1> HIDE DEF dot, s, t
<1>5. dot * dot <= (u * w) * (u * w)
  <2>1. s * t <= (u * u) * t
    <3>1. PICK n \in Nat : n = u * u  OBVIOUS
    <3> QED  BY <1>1, <1>4, <3>1
  <2>2. (u * u) * t <= (u * u) * (w * w)
    <3>1. PICK n \in Nat : n = u * u  OBVIOUS
    <3>2. PICK m \in Nat : m = w * w  OBVIOUS
    <3> QED  BY <1>1, <1>4, <3>1, <3>2
  <2>3. (u * u) * (w * w) = (u * w) * (u * w)  OBVIOUS
  <2>4. dot * dot \in Int /\ s * t \in Int /\ (u * u) * t \in Int
        /\ (u * w) * (u * w) \in Int
    BY <1>1
  <2> QED  BY <1>2, <2>1, <2>2, <2>3, <2>4
<1>6. 0 - dot <= u * w
  <2>1. PICK m \in Nat : m = u * w  OBVIOUS
  <2>2. dot * dot <= m * m  BY <1>5, <2>1
  <2>3. PICK d \in Int : d = 0 - dot  BY <1>1
  <2>4. d * d <= m * m  BY <1>1, <2>2, <2>3
  <2>5. ~(d > m)
    <3> SUFFICES ASSUME d > m PROVE FALSE  OBVIOUS
    <3>1. d * d >= d * (m + 1)  BY <2>1, <2>3
    <3>2. d * (m + 1) > m * m
      <4>1. d * (m + 1) >= (m + 1) * (m + 1)  BY <2>1, <2>3
      <4>2. (m + 1) * (m + 1) > m * m  BY <2>1
      <4> QED  BY <4>1, <4>2, <2>1, <2>3
    <3> QED  BY <2>1, <2>3, <2>4, <3>1, <3>2
  <2> QED  BY <2>1, <2>3, <2>5
<1>7. (u + w) * (u + w) = u * u + 2 * (u * w) + w * w  OBVIOUS
<1>8. s - 2 * dot + t < u * u + 2 * (u * w) + w * w
  <2>1. PICK m \in Nat : m = u * w  OBVIOUS
  <2>2. PICK n \in Nat : n = u * u  OBVIOUS
  <2>3. PICK k \in Nat : k = w * w  OBVIOUS
  <2> QED  BY <1>1, <1>4, <1>6, <2>1, <2>2, <2>3
<1> QED  BY <1>3, <1>7, <1>8

\* Squares are in the order of what they are squares of.
LEMMA SquareOrder ==
    ASSUME NEW a \in Nat, NEW b \in Nat
    PROVE  /\ a <= b => a * a <= b * b
           /\ a * a <= b * b => a <= b
           /\ a < b => a * a < b * b
<1>1. a <= b => a * a <= b * b  OBVIOUS
<1>2. a < b => a * a < b * b
  <2> SUFFICES ASSUME a < b PROVE a * a < b * b  OBVIOUS
  <2>1. a * a <= a * b  OBVIOUS
  <2>2. a * b + b <= b * b
    <3>1. (a + 1) * b <= b * b  OBVIOUS
    <3>2. (a + 1) * b = a * b + b  OBVIOUS
    <3> QED  BY <3>1, <3>2
  <2> QED  BY <2>1, <2>2
<1>3. b < a => b * b < a * a
  <2> SUFFICES ASSUME b < a PROVE b * b < a * a  OBVIOUS
  <2>1. b * b <= b * a  OBVIOUS
  <2>2. b * a + a <= a * a
    <3>1. (b + 1) * a <= a * a  OBVIOUS
    <3>2. (b + 1) * a = b * a + a  OBVIOUS
    <3> QED  BY <3>1, <3>2
  <2> QED  BY <2>1, <2>2
<1> QED  BY <1>1, <1>2, <1>3

\* What the proofs need of the constants of the path service
LEMMA PathConstants ==
    /\ Reserve \in Nat /\ Reserve >= 1 /\ Radius \in Nat /\ PathClearance \in Nat
    /\ Ego!Resolution \in Nat /\ Ego!Resolution >= 1 /\ Ego!Resolution = 8 * Reserve
    /\ Ego!Inflated \in Nat /\ Ego!Inflated = PathClearance + Reserve
    /\ Starts \subseteq Ego!Position /\ Goals \subseteq Ego!Position
    /\ Obstacles \subseteq Ego!Position /\ Vias \subseteq Ego!Position
    /\ PathHorizon \in Nat /\ Margin \in Nat
<1>1. Ego!EgoServiceAssumption  BY PlanningAssumptions
<1>2. Reserve \in Nat /\ Reserve >= 1 /\ Radius \in Nat /\ PathClearance \in Nat
      /\ PathHorizon \in Nat /\ Margin \in Nat
  BY <1>1 DEF Ego!EgoServiceAssumption
<1> QED  BY <1>1, <1>2 DEF Ego!EgoServiceAssumption, Ego!Resolution, Ego!Inflated

\* Positions, and distances between them
LEMMA PositionIs ==
    ASSUME NEW p \in Ego!Position
    PROVE  p[1] \in Int /\ p[2] \in Int /\ p[3] \in Int /\ p = <<p[1], p[2], p[3]>>
  BY DEF Ego!Position

\* The square of a distance, coordinate by coordinate
LEMMA DistanceIs ==
    ASSUME NEW p \in Ego!Position, NEW q \in Ego!Position
    PROVE  /\ Ego!SquaredDistance(p, q) \in Nat
           /\ Ego!SquaredDistance(p, q) =
                (q[1] - p[1]) * (q[1] - p[1]) + (q[2] - p[2]) * (q[2] - p[2])
                  + (q[3] - p[3]) * (q[3] - p[3])
<1>1. Ego!SquaredDistance(p, q) =
        (q[1] - p[1]) * (q[1] - p[1]) + (q[2] - p[2]) * (q[2] - p[2])
          + (q[3] - p[3]) * (q[3] - p[3])
  BY DEF Ego!SquaredDistance, Ego!Square
<1>2. PICK a \in Int, b \in Int, c \in Int : a = q[1] - p[1] /\ b = q[2] - p[2] /\ c = q[3] - p[3]
  BY PositionIs
<1>3. a * a \in Nat /\ b * b \in Nat /\ c * c \in Nat  OBVIOUS
<1> QED  BY <1>1, <1>2, <1>3

\* The pieces of a chord are no longer than twice the reserve.
LEMMA PiecesAre ==
    ASSUME NEW a \in Ego!Position, NEW b \in Ego!Position
    PROVE  LET n == Ego!Pieces(a, b)
           IN /\ n \in Nat /\ n >= 1
              /\ Ego!SquaredDistance(a, b) <= (2 * Reserve * n) * (2 * Reserve * n)
<1> DEFINE d == Ego!SquaredDistance(a, b)
           T == {k \in Nat : k >= 1 /\ d <= (2 * Reserve * k) * (2 * Reserve * k)}
<1>1. d \in Nat  BY DistanceIs
<1> HIDE DEF d
<1>2. d + 1 \in T
  <2>1. PICK k \in Nat : k = d + 1  BY <1>1
  <2>2. PICK m \in Nat : m = 2 * Reserve * k  BY PathConstants
  <2>3. k <= m
    <3>1. PICK e \in Nat : e = 2 * Reserve /\ e >= 1  BY PathConstants
    <3> QED  BY <2>2, <3>1
  <2>4. k * k <= m * m  BY <2>3, SquareOrder
  <2>5. d <= k * k
    <3>1. k * k = d * d + 2 * d + 1  BY <1>1, <2>1
    <3>2. d * d >= 0  BY <1>1
    <3> QED  BY <1>1, <3>1, <3>2
  <2> QED  BY <1>1, <2>1, <2>2, <2>4, <2>5
<1>3. T \subseteq Nat  OBVIOUS
<1>4. \A k \in T : k >= 1 /\ d <= (2 * Reserve * k) * (2 * Reserve * k)  OBVIOUS
<1>5. \A k \in Nat : k >= 1 /\ k \notin T => d > (2 * Reserve * k) * (2 * Reserve * k)
  <2> SUFFICES ASSUME NEW k \in Nat, k >= 1, k \notin T
               PROVE  d > (2 * Reserve * k) * (2 * Reserve * k)
    OBVIOUS
  <2>1. PICK m \in Int : m = (2 * Reserve * k) * (2 * Reserve * k)  BY PathConstants
  <2>2. ~(d <= m)  BY <2>1
  <2> QED  BY <1>1, <2>1, <2>2
<1> HIDE DEF T
<1>6. PICK n \in T : \A k \in T : n <= k  BY <1>2, <1>3, Smallest
<1>7. n \in 1 .. d + 1  BY <1>1, <1>2, <1>3, <1>4, <1>6
<1>8. n > 1 => d > (2 * Reserve * (n - 1)) * (2 * Reserve * (n - 1))
  <2> SUFFICES ASSUME n > 1 PROVE d > (2 * Reserve * (n - 1)) * (2 * Reserve * (n - 1))
    OBVIOUS
  <2>1. n - 1 \in Nat /\ n - 1 >= 1 /\ n - 1 \notin T  BY <1>1, <1>6, <1>7
  <2> QED  BY <1>5, <2>1
<1>9. \E m \in 1 .. d + 1 :
         /\ d <= Ego!Square(2 * Reserve * m)
         /\ m > 1 => d > Ego!Square(2 * Reserve * (m - 1))
  BY <1>4, <1>7, <1>8 DEF Ego!Square
<1>10. /\ Ego!Pieces(a, b) \in 1 .. d + 1
       /\ d <= Ego!Square(2 * Reserve * Ego!Pieces(a, b))
  BY <1>9 DEF Ego!Pieces, d
<1>11. Ego!Pieces(a, b) \in Nat /\ Ego!Pieces(a, b) >= 1
  <2> DEFINE m == Ego!Pieces(a, b)
  <2>1. m \in 1 .. d + 1  BY <1>10
  <2> HIDE DEF m
  <2>2. m \in Nat /\ m >= 1  BY <1>1, <2>1
  <2> QED  BY <2>2 DEF m
<1> QED  BY <1>10, <1>11 DEF Ego!Square, d

-----------------------------------------------------------------------------
\* The cells of two points are no further apart than the points.
LEMMA CellIs ==
    ASSUME NEW u \in Int, NEW g \in Nat, g >= 1
    PROVE  /\ u \div g \in Int /\ (u \div g) * g <= u /\ u < (u \div g) * g + g
  OBVIOUS

\* The gap of two cells along an axis is no wider than the distance of two points of
\* theirs, the second of which is given in n-ths.
LEMMA GapIs ==
    ASSUME NEW n \in Nat, n >= 1, NEW u \in Int, NEW w \in Int
    PROVE  LET gap == Ego!AxisGap(w \div (n * Ego!Resolution) - u \div Ego!Resolution)
           IN gap \in Nat /\ n * gap <= Ego!Magnitude(w - n * u)
<1> DEFINE g == Ego!Resolution
           A == u \div g
           B == w \div (n * g)
           gap == Ego!AxisGap(B - A)
<1>1. g \in Nat /\ g >= 1  BY PathConstants
<1> HIDE DEF g
<1>2. PICK x \in Nat : x = n * g /\ x >= 1
  <2>1. n * g \in Nat /\ n * g >= 1  BY <1>1
  <2> QED  BY <2>1
<1>3. A \in Int /\ A * g <= u /\ u < A * g + g  BY <1>1, CellIs
<1>4. B \in Int /\ B * x <= w /\ w < B * x + x
  <2>1. B = w \div x  BY <1>2
  <2> HIDE DEF B
  <2> QED  BY <1>2, <2>1, CellIs
<1> HIDE DEF A, B
<1>5. A * x <= n * u /\ n * u <= A * x + x
  <2>1. n * (A * g) <= n * u
    <3>1. PICK k \in Int : k = A * g  BY <1>1, <1>3
    <3> QED  BY <1>3, <3>1
  <2>2. n * u <= n * (A * g + g)
    <3>1. PICK k \in Int : k = A * g + g  BY <1>1, <1>3
    <3> QED  BY <1>3, <3>1
  <2>3. n * (A * g) = A * x /\ n * (A * g + g) = A * x + x
    <3>1. n * (A * g) = A * (n * g)  BY <1>1, <1>3
    <3>2. n * (A * g + g) = n * (A * g) + n * g  BY <1>1, <1>3
    <3> QED  BY <1>2, <3>1, <3>2
  <2> QED  BY <2>1, <2>2, <2>3
<1>6. PICK y \in Int : y = n * u  OBVIOUS
<1>7. CASE B = A
  <2>1. gap = 0  BY <1>3, <1>4, <1>7 DEF Ego!AxisGap
  <2> QED  BY <1>6, <2>1 DEF Ego!Magnitude, A, B, g
<1>8. CASE B > A
  <2>1. PICK k \in Nat : k = B - A - 1  BY <1>3, <1>4, <1>8
  <2>2. Ego!Magnitude(B - A) - 1 = k /\ B - A # 0
    BY <1>3, <1>4, <1>8, <2>1 DEF Ego!Magnitude
  <2>3. gap = k * g  BY <2>2 DEF Ego!AxisGap, g
  <2>4. gap \in Nat /\ n * gap = k * x
    <3>1. n * (k * g) = k * (n * g)  BY <1>1
    <3> QED  BY <1>1, <1>2, <2>3, <3>1
  <2>5. k * x = B * x - A * x - x
    <3>1. k * x = (B - A - 1) * x  BY <2>1
    <3> QED  BY <1>3, <1>4, <3>1
  <2>6. k * x <= w - y
    <3>1. A * x \in Int /\ B * x \in Int  BY <1>3, <1>4
    <3> QED  BY <1>4, <1>5, <1>6, <2>5, <3>1
  <2>7. w - y <= Ego!Magnitude(w - y)  BY DEF Ego!Magnitude
  <2>8. Ego!Magnitude(w - y) \in Int  BY DEF Ego!Magnitude
  <2>9. n * gap <= Ego!Magnitude(w - y)  BY <2>4, <2>6, <2>7, <2>8
  <2> QED  BY <1>6, <2>4, <2>9 DEF A, B, g
<1>9. CASE B < A
  <2>1. PICK k \in Nat : k = A - B - 1  BY <1>3, <1>4, <1>9
  <2>2. Ego!Magnitude(B - A) - 1 = k /\ B - A # 0
    BY <1>3, <1>4, <1>9, <2>1 DEF Ego!Magnitude
  <2>3. gap = k * g  BY <2>2 DEF Ego!AxisGap, g
  <2>4. gap \in Nat /\ n * gap = k * x
    <3>1. n * (k * g) = k * (n * g)  BY <1>1
    <3> QED  BY <1>1, <1>2, <2>3, <3>1
  <2>5. k * x = A * x - B * x - x
    <3>1. k * x = (A - B - 1) * x  BY <2>1
    <3> QED  BY <1>3, <1>4, <3>1
  <2>6. k * x <= y - w
    <3>1. A * x \in Int /\ B * x \in Int  BY <1>3, <1>4
    <3> QED  BY <1>4, <1>5, <1>6, <2>5, <3>1
  <2>7. y - w <= Ego!Magnitude(w - y)  BY DEF Ego!Magnitude
  <2>8. Ego!Magnitude(w - y) \in Int  BY DEF Ego!Magnitude
  <2>9. n * gap <= Ego!Magnitude(w - y)  BY <2>4, <2>6, <2>7, <2>8
  <2> QED  BY <1>6, <2>4, <2>9 DEF A, B, g
<1> QED  BY <1>3, <1>4, <1>7, <1>8, <1>9

\* The square of a magnitude
LEMMA MagnitudeIs ==
    ASSUME NEW d \in Int
    PROVE  Ego!Magnitude(d) \in Nat /\ Ego!Magnitude(d) * Ego!Magnitude(d) = d * d
<1>1. CASE d < 0  BY <1>1 DEF Ego!Magnitude
<1>2. CASE d >= 0  BY <1>2 DEF Ego!Magnitude
<1> QED  BY <1>1, <1>2

\* Gaps between cells whose squares are no more than a radius, when the points are
\* within it
LEMMA GapsWithin ==
    ASSUME NEW n \in Nat, n >= 1, NEW i \in Nat,
           NEW a \in Nat, NEW b \in Nat, NEW c \in Nat,
           NEW x \in Nat, NEW y \in Nat, NEW z \in Nat,
           n * a <= x, n * b <= y, n * c <= z,
           x * x + y * y + z * z <= (n * i) * (n * i)
    PROVE  a * a + b * b + c * c <= i * i
<1>1. /\ (n * a) * (n * a) <= x * x
      /\ (n * b) * (n * b) <= y * y
      /\ (n * c) * (n * c) <= z * z
  BY SquareOrder
<1>2. PICK m \in Nat : m = n * n /\ m >= 1
  <2>1. n * n \in Nat /\ n * n >= 1  OBVIOUS
  <2> QED  BY <2>1
<1>3. /\ (n * a) * (n * a) = m * (a * a) /\ (n * b) * (n * b) = m * (b * b)
      /\ (n * c) * (n * c) = m * (c * c) /\ (n * i) * (n * i) = m * (i * i)
  BY <1>2
<1>4. PICK s \in Nat : s = a * a + b * b + c * c
  <2>1. a * a \in Nat /\ b * b \in Nat /\ c * c \in Nat  OBVIOUS
  <2> QED  BY <2>1
<1>5. PICK t \in Nat : t = i * i  OBVIOUS
<1>6. m * s <= m * t
  <2>1. m * s = m * (a * a) + m * (b * b) + m * (c * c)  BY <1>4
  <2>2. PICK e \in Int, f \in Int, h \in Int :
             e = m * (a * a) /\ f = m * (b * b) /\ h = m * (c * c)
    OBVIOUS
  <2>3. PICK u \in Int, v \in Int, w \in Int : u = x * x /\ v = y * y /\ w = z * z
    OBVIOUS
  <2>4. e <= u /\ f <= v /\ h <= w  BY <1>1, <1>3, <2>2, <2>3
  <2>5. u + v + w <= m * t  BY <1>3, <1>5, <2>3
  <2>6. PICK q \in Int : q = m * t  OBVIOUS
  <2>7. m * s = e + f + h  BY <2>1, <2>2
  <2> QED  BY <2>4, <2>5, <2>6, <2>7
<1>7. s <= t
  <2> SUFFICES ASSUME s > t PROVE FALSE  OBVIOUS
  <2>1. m * s >= m * (t + 1)  OBVIOUS
  <2>2. m * (t + 1) = m * t + m  OBVIOUS
  <2>3. m * s \in Int /\ m * t \in Int  OBVIOUS
  <2> QED  BY <1>2, <1>6, <2>1, <2>2, <2>3
<1> QED  BY <1>4, <1>5, <1>7

\* The stencil reaches every cell whose gap is within the inflation.
LEMMA StencilReaches ==
    ASSUME NEW o \in Int, Ego!AxisGap(o) <= Ego!Inflated
    PROVE  Ego!Magnitude(o) <= Ego!Stencil
<1> DEFINE g == Ego!Resolution
           i == Ego!Inflated
           t == (i + g - 1) \div g
           m == Ego!Magnitude(o)
<1>1. g \in Nat /\ g >= 1 /\ i \in Nat  BY PathConstants
<1>2. Ego!Stencil = t + 1  BY DEF Ego!Stencil
<1>3. m \in Nat /\ (o # 0 => (m - 1) * g <= i) /\ (o = 0 => m = 0)
  BY DEF Ego!AxisGap, Ego!Magnitude
<1> HIDE DEF g, i, m
<1>4. t \in Nat /\ i + g - 1 < t * g + g
  <2>1. PICK k \in Nat : k = i + g - 1  BY <1>1
  <2>2. k \div g \in Nat  BY <1>1, Quotient
  <2> QED  BY <1>1, <2>1, <2>2, CellIs
<1> HIDE DEF t
<1>5. m <= t + 1
  <2> SUFFICES ASSUME m > t + 1 PROVE FALSE  BY <1>3, <1>4
  <2>1. o # 0  BY <1>3, <1>4
  <2>2. PICK e \in Nat : e = m - 1 /\ e >= t + 1  BY <1>3, <1>4
  <2>3. e * g >= (t + 1) * g  BY <1>1, <1>4, <2>2
  <2>4. (t + 1) * g = t * g + g  BY <1>1, <1>4
  <2>5. t * g \in Int /\ e * g \in Int  BY <1>1, <1>4, <2>2
  <2>6. e * g <= i  BY <1>3, <2>1, <2>2
  <2> QED  BY <1>1, <1>4, <2>3, <2>4, <2>5, <2>6
<1> QED  BY <1>2, <1>5 DEF m

\* Lengths are compared in any unit.
LEMMA ScaledLength ==
    ASSUME NEW n \in Nat, n >= 1, NEW a \in Int, NEW b \in Int, NEW c \in Int, NEW u \in Nat
    PROVE  a * a + b * b + c * c < u * u <=>
             (n * a) * (n * a) + (n * b) * (n * b) + (n * c) * (n * c) < (n * u) * (n * u)
<1>1. PICK m \in Nat : m = n * n /\ m >= 1
  <2>1. n * n \in Nat /\ n * n >= 1  OBVIOUS
  <2> QED  BY <2>1
<1>2. PICK s \in Nat : s = a * a + b * b + c * c
  <2>1. a * a \in Nat /\ b * b \in Nat /\ c * c \in Nat  OBVIOUS
  <2> QED  BY <2>1
<1>3. PICK t \in Nat : t = u * u  OBVIOUS
<1>4. (n * a) * (n * a) + (n * b) * (n * b) + (n * c) * (n * c) = m * s
  <2>1. (n * a) * (n * a) = m * (a * a) /\ (n * b) * (n * b) = m * (b * b)
        /\ (n * c) * (n * c) = m * (c * c)
    BY <1>1
  <2>2. m * s = m * (a * a) + m * (b * b) + m * (c * c)  BY <1>2
  <2> QED  BY <2>1, <2>2
<1>5. (n * u) * (n * u) = m * t  BY <1>1, <1>3
<1>6. s < t <=> m * s < m * t
  <2>1. ASSUME s < t PROVE m * s < m * t
    <3>1. m * (s + 1) <= m * t  BY <2>1
    <3>2. m * (s + 1) = m * s + m  OBVIOUS
    <3>3. m * s \in Int /\ m * t \in Int  OBVIOUS
    <3> QED  BY <1>1, <3>1, <3>2, <3>3
  <2>2. ASSUME t <= s PROVE m * t <= m * s  BY <2>2
  <2>3. m * s \in Int /\ m * t \in Int  OBVIOUS
  <2> QED  BY <2>1, <2>2, <2>3
<1> QED  BY <1>2, <1>3, <1>4, <1>5, <1>6

\* A side of a sum of squares
LEMMA SideOf ==
    ASSUME NEW a \in Int, NEW b \in Int, NEW c \in Int
    PROVE  LET s == a * a + b * b + c * c
           IN s \in Nat /\ a * a \in Nat /\ b * b \in Nat /\ c * c \in Nat
              /\ a * a <= s /\ b * b <= s /\ c * c <= s
<1>1. PICK x \in Nat, y \in Nat, z \in Nat : x = a * a /\ y = b * b /\ z = c * c  OBVIOUS
<1> QED  BY <1>1

\* A pose that is not blocked is away from every point in the grid.
LEMMA AwayFromSources ==
    ASSUME NEW center \in Ego!Position, NEW points, points \subseteq Ego!Position,
           NEW p \in Ego!Sources(center, points), NEW q \in Ego!Position,
           NEW n \in Nat, n >= 1, ~Ego!Blocked(center, points, q, n)
    PROVE  LET d(l) == q[l] - n * p[l]
               i == n * Ego!Inflated
           IN d(1) * d(1) + d(2) * d(2) + d(3) * d(3) > i * i
<1> DEFINE o == Ego!Origin(center)
           A == Ego!Cell(o, p)
           B == Ego!ScaledCell(n, o, q)
           I == Ego!Inflated
           d(l) == q[l] - n * p[l]
           w(l) == q[l] - n * o[l]
           u(l) == p[l] - o[l]
           gap(l) == Ego!AxisGap(B[l] - A[l])
           x(l) == Ego!Magnitude(d(l))
<1>1. p \in Ego!Position /\ p \in points  BY DEF Ego!Sources
<1>2. /\ o[1] \in Int /\ o[2] \in Int /\ o[3] \in Int
      /\ A = <<u(1) \div Ego!Resolution, u(2) \div Ego!Resolution, u(3) \div Ego!Resolution>>
      /\ B = <<w(1) \div (n * Ego!Resolution), w(2) \div (n * Ego!Resolution),
               w(3) \div (n * Ego!Resolution)>>
  <2>1. o = <<center[1] - Radius, center[2] - Radius, center[3] - Radius>>  BY DEF Ego!Origin
  <2>2. o[1] \in Int /\ o[2] \in Int /\ o[3] \in Int  BY <2>1, PositionIs, PathConstants
  <2> HIDE DEF o
  <2> QED  BY <2>2 DEF Ego!Cell, Ego!ScaledCell
<1>3. I \in Nat  BY PathConstants
<1> HIDE DEF o, I
<1>4. ASSUME NEW l \in 1 .. 3
      PROVE  /\ d(l) \in Int /\ gap(l) \in Nat /\ x(l) \in Nat
             /\ n * gap(l) <= x(l) /\ x(l) * x(l) = d(l) * d(l)
  <2>1. p[l] \in Int /\ q[l] \in Int /\ o[l] \in Int
    <3>1. l = 1 \/ l = 2 \/ l = 3  OBVIOUS
    <3> QED  BY <1>1, <1>2, <3>1, PositionIs
  <2>2. d(l) \in Int /\ u(l) \in Int /\ w(l) \in Int  BY <2>1
  <2>3. w(l) - n * u(l) = d(l)
    <3>1. n * u(l) = n * p[l] - n * o[l]  BY <2>1
    <3>2. n * p[l] \in Int /\ n * o[l] \in Int  BY <2>1
    <3> QED  BY <2>1, <3>1, <3>2
  <2>4. A[l] = u(l) \div Ego!Resolution /\ B[l] = w(l) \div (n * Ego!Resolution)
    <3>1. l = 1 \/ l = 2 \/ l = 3  OBVIOUS
    <3> HIDE DEF A, B, u, w
    <3> QED  BY <1>2, <3>1
  <2> HIDE DEF A, B, u, w, d
  <2>5. gap(l) \in Nat /\ n * gap(l) <= x(l)  BY <2>2, <2>3, <2>4, GapIs
  <2>6. x(l) \in Nat /\ x(l) * x(l) = d(l) * d(l)  BY <2>2, MagnitudeIs
  <2> QED  BY <2>2, <2>5, <2>6
<1>5. ~Ego!Marks(A, B) \/ ~Ego!Within(q, Ego!ScaledBy(n, p), n * I)
  BY DEF Ego!Blocked, Ego!Occupied, I, o
<1>6. Ego!Within(q, Ego!ScaledBy(n, p), n * I) <=>
        d(1) * d(1) + d(2) * d(2) + d(3) * d(3) <= (n * I) * (n * I)
  <2> DEFINE r == Ego!ScaledBy(n, p)
  <2>1. r = <<n * p[1], n * p[2], n * p[3]>>  BY DEF Ego!ScaledBy
  <2>2. r \in Ego!Position /\ r[1] = n * p[1] /\ r[2] = n * p[2] /\ r[3] = n * p[3]
    <3>1. n * p[1] \in Int /\ n * p[2] \in Int /\ n * p[3] \in Int  BY <1>1, PositionIs
    <3> QED  BY <2>1, <3>1 DEF Ego!Position
  <2> HIDE DEF r
  <2>3. Ego!SquaredDistance(q, r) =
          (r[1] - q[1]) * (r[1] - q[1]) + (r[2] - q[2]) * (r[2] - q[2])
            + (r[3] - q[3]) * (r[3] - q[3])
    BY <2>2, DistanceIs
  <2>4. ASSUME NEW l \in 1 .. 3, r[l] = n * p[l]
        PROVE  (r[l] - q[l]) * (r[l] - q[l]) = d(l) * d(l)
    <3>1. PICK e \in Int : e = d(l)  BY <1>4
    <3>2. r[l] - q[l] = 0 - e
      <4>1. q[l] \in Int /\ r[l] \in Int
        <5>1. l = 1 \/ l = 2 \/ l = 3  OBVIOUS
        <5> QED  BY <2>2, <5>1, PositionIs
      <4> QED  BY <2>4, <3>1, <4>1
    <3>3. (0 - e) * (0 - e) = e * e  OBVIOUS
    <3> QED  BY <3>1, <3>2, <3>3
  <2>5. Ego!SquaredDistance(q, r) = d(1) * d(1) + d(2) * d(2) + d(3) * d(3)
    <3> HIDE DEF d
    <3> QED  BY <2>2, <2>3, <2>4
  <2> HIDE DEF d
  <2> QED  BY <2>5 DEF Ego!Within, Ego!Square, r
<1>7. ASSUME d(1) * d(1) + d(2) * d(2) + d(3) * d(3) <= (n * I) * (n * I)
      PROVE  Ego!Marks(A, B)
  <2> HIDE DEF A, B, d, x, gap
  <2>1. PICK a \in Nat, b \in Nat, c \in Nat : a = gap(1) /\ b = gap(2) /\ c = gap(3)
    BY <1>4
  <2>2. PICK e \in Nat, f \in Nat, h \in Nat : e = x(1) /\ f = x(2) /\ h = x(3)
    BY <1>4
  <2>3. n * a <= e /\ n * b <= f /\ n * c <= h  BY <1>4, <2>1, <2>2
  <2>4. e * e + f * f + h * h <= (n * I) * (n * I)  BY <1>4, <1>7, <2>2
  <2>5. a * a + b * b + c * c <= I * I  BY <1>3, <2>3, <2>4, GapsWithin
  <2>6. a * a <= I * I /\ b * b <= I * I /\ c * c <= I * I
    <3>1. PICK s \in Nat : s = a * a + b * b + c * c  BY SideOf
    <3>2. PICK t \in Nat : t = I * I  BY <1>3
    <3>3. a * a <= s /\ b * b <= s /\ c * c <= s  BY <3>1, SideOf
    <3>4. a * a \in Nat /\ b * b \in Nat /\ c * c \in Nat  OBVIOUS
    <3> QED  BY <2>5, <3>1, <3>2, <3>3, <3>4
  <2>7. a <= I /\ b <= I /\ c <= I  BY <1>3, <2>6, SquareOrder
  <2>8. ASSUME NEW l \in 1 .. 3 PROVE Ego!Magnitude(B[l] - A[l]) <= Ego!Stencil
    <3>1. gap(l) <= Ego!Inflated
      <4>1. l = 1 \/ l = 2 \/ l = 3  OBVIOUS
      <4> QED  BY <2>1, <2>7, <4>1 DEF I
    <3>2. B[l] - A[l] \in Int
      <4>1. \A k \in 1 .. 3 : p[k] \in Int /\ q[k] \in Int /\ o[k] \in Int
        <5> TAKE k \in 1 .. 3
        <5>1. k = 1 \/ k = 2 \/ k = 3  OBVIOUS
        <5> QED  BY <1>1, <1>2, <5>1, PositionIs
      <4>2. PICK g \in Nat : g = n * Ego!Resolution /\ g >= 1
        <5>1. n * Ego!Resolution \in Nat /\ n * Ego!Resolution >= 1  BY PathConstants
        <5> QED  BY <5>1
      <4>3. \A k \in 1 .. 3 : u(k) \in Int /\ w(k) \in Int  BY <4>1
      <4> HIDE DEF u, w
      <4>4. \A k \in 1 .. 3 : u(k) \div Ego!Resolution \in Int /\ w(k) \div g \in Int
        BY <4>2, <4>3, PathConstants, CellIs
      <4>5. l = 1 \/ l = 2 \/ l = 3  OBVIOUS
      <4>6. A[l] \in Int /\ B[l] \in Int  BY <1>2, <4>2, <4>4, <4>5
      <4> QED  BY <4>6
    <3> QED  BY <3>1, <3>2, StencilReaches DEF gap
  <2>9. Ego!CellGapSquared(A, B) = a * a + b * b + c * c
    BY <2>1 DEF Ego!CellGapSquared, Ego!Square, gap
  <2>10. Ego!CellGapSquared(A, B) <= Ego!Square(Ego!Inflated)
    BY <2>5, <2>9 DEF Ego!Square, I
  <2> QED  BY <2>8, <2>10 DEF Ego!Marks, Ego!Coordinates
<1>8. d(1) * d(1) + d(2) * d(2) + d(3) * d(3) > (n * I) * (n * I)
  <2> HIDE DEF A, B, x, gap
  <2>1. PICK s \in Nat : s = d(1) * d(1) + d(2) * d(2) + d(3) * d(3)
    <3>1. d(1) \in Int /\ d(2) \in Int /\ d(3) \in Int  BY <1>4
    <3> HIDE DEF d
    <3> QED  BY <3>1, SideOf
  <2> HIDE DEF d
  <2>2. PICK t \in Nat : t = (n * I) * (n * I)  BY <1>3
  <2>3. ~(s <= t)  BY <1>5, <1>6, <1>7, <2>1, <2>2
  <2> QED  BY <2>1, <2>2, <2>3
<1> QED  BY <1>8 DEF I

\* A point that is not in the grid is beyond the radius along an axis.
LEMMA OutsideGrid ==
    ASSUME NEW center \in Ego!Position, NEW p \in Ego!Position,
           ~Ego!InGrid(Ego!Cell(Ego!Origin(center), p))
    PROVE  \E l \in 1 .. 3 : p[l] - center[l] <= -Radius \/ p[l] - center[l] >= Radius
<1> DEFINE g == Ego!Resolution
           u(l) == p[l] - (center[l] - Radius)
           A == Ego!Cell(Ego!Origin(center), p)
           D == Ego!Dimension
<1>1. g \in Nat /\ g >= 1 /\ Radius \in Nat  BY PathConstants
<1>2. A = <<u(1) \div g, u(2) \div g, u(3) \div g>>  BY DEF Ego!Cell, Ego!Origin
<1>3. PICK l \in 1 .. 3 : ~(A[l] \in 0 .. D - 1)  BY DEF Ego!InGrid, Ego!Coordinates
<1>4. A[l] = u(l) \div g
  <2>1. l = 1 \/ l = 2 \/ l = 3  OBVIOUS
  <2> HIDE DEF A, u
  <2> QED  BY <1>2, <2>1
<1>5. p[l] \in Int /\ center[l] \in Int
  <2>1. l = 1 \/ l = 2 \/ l = 3  OBVIOUS
  <2> QED  BY <2>1, PositionIs
<1>6. PICK v \in Int : v = u(l) /\ v = p[l] - center[l] + Radius  BY <1>1, <1>5
<1>7. D \in Nat /\ 2 * Radius + g - 1 < D * g + g
  <2>1. PICK k \in Nat : k = 2 * Radius + g - 1  BY <1>1
  <2>2. D = k \div g  BY <2>1 DEF Ego!Dimension
  <2> HIDE DEF D
  <2>3. D \in Nat  BY <1>1, <2>2, Quotient
  <2> QED  BY <1>1, <2>1, <2>2, <2>3, CellIs
<1> HIDE DEF D, A, u, g
<1>8. PICK c \in Int : c = v \div g /\ c * g <= v /\ v < c * g + g
  BY <1>1, CellIs
<1>9. c < 0 \/ c >= D  BY <1>3, <1>4, <1>6, <1>7, <1>8
<1>10. CASE c < 0
  <2>1. (c + 1) * g <= 0  BY <1>1, <1>10
  <2>2. (c + 1) * g = c * g + g  BY <1>1
  <2>3. v < 0
    <3>1. PICK k \in Int : k = c * g  BY <1>1
    <3> QED  BY <1>1, <1>8, <2>1, <2>2, <3>1
  <2> QED  BY <1>1, <1>5, <1>6, <2>3
<1>11. CASE c >= D
  <2>1. c * g >= D * g  BY <1>1, <1>7, <1>11
  <2>2. v >= 2 * Radius
    <3>1. PICK k \in Int, m \in Int : k = c * g /\ m = D * g  BY <1>1, <1>7
    <3> QED  BY <1>1, <1>7, <1>8, <2>1, <3>1
  <2> QED  BY <1>1, <1>5, <1>6, <2>2
<1> QED  BY <1>9, <1>10, <1>11

\* A pose that is not blocked is within the radius, less the clearance, along every axis.
LEMMA WithinBall ==
    ASSUME NEW center \in Ego!Position, NEW points, NEW q \in Ego!Position,
           NEW n \in Nat, n >= 1, ~Ego!Blocked(center, points, q, n), NEW l \in 1 .. 3
    PROVE  /\ Radius >= PathClearance
           /\ q[l] - n * center[l] <= n * (Radius - PathClearance)
           /\ n * center[l] - q[l] <= n * (Radius - PathClearance)
<1> DEFINE r == Ego!ScaledBy(n, center)
<1>1. ~(Radius < PathClearance) /\ Ego!Within(q, r, n * (Radius - PathClearance))
  BY DEF Ego!Blocked
<1>2. PICK f \in Nat : f = Radius - PathClearance  BY <1>1, PathConstants
<1>3. PICK e \in Nat : e = n * f  OBVIOUS
<1>4. r = <<n * center[1], n * center[2], n * center[3]>>  BY DEF Ego!ScaledBy
<1>5. r \in Ego!Position /\ r[1] = n * center[1] /\ r[2] = n * center[2]
      /\ r[3] = n * center[3]
  <2>1. n * center[1] \in Int /\ n * center[2] \in Int /\ n * center[3] \in Int
    BY PositionIs
  <2> QED  BY <1>4, <2>1 DEF Ego!Position
<1> HIDE DEF r
<1>6. Ego!SquaredDistance(q, r) <= e * e  BY <1>1, <1>2, <1>3 DEF Ego!Within, Ego!Square
<1>7. PICK a \in Int, b \in Int, c \in Int :
        a = r[1] - q[1] /\ b = r[2] - q[2] /\ c = r[3] - q[3]
  BY <1>5, PositionIs
<1>8. a * a + b * b + c * c <= e * e
  BY <1>5, <1>6, <1>7, DistanceIs
<1>9. a * a <= e * e /\ b * b <= e * e /\ c * c <= e * e
  <2>1. PICK s \in Nat : s = a * a + b * b + c * c  BY SideOf
  <2>2. PICK t \in Nat : t = e * e  OBVIOUS
  <2>3. a * a <= s /\ b * b <= s /\ c * c <= s  BY <2>1, SideOf
  <2>4. a * a \in Nat /\ b * b \in Nat /\ c * c \in Nat  OBVIOUS
  <2> QED  BY <1>8, <2>1, <2>2, <2>3, <2>4
<1>10. ASSUME NEW k \in Int, k * k <= e * e PROVE k <= e /\ 0 - k <= e
  <2>1. PICK m \in Nat : m = Ego!Magnitude(k) /\ m * m = k * k  BY MagnitudeIs
  <2>2. m <= e  BY <1>10, <2>1, SquareOrder
  <2> QED  BY <2>1, <2>2 DEF Ego!Magnitude
<1>11. PICK k \in Int : k = r[l] - q[l] /\ k <= e /\ 0 - k <= e
  <2>1. l = 1 \/ l = 2 \/ l = 3  OBVIOUS
  <2> QED  BY <1>7, <1>9, <1>10, <2>1
<1>12. r[l] = n * center[l] /\ r[l] \in Int /\ q[l] \in Int
  <2>1. l = 1 \/ l = 2 \/ l = 3  OBVIOUS
  <2> QED  BY <1>5, <2>1, PositionIs
<1> QED  BY <1>1, <1>2, <1>3, <1>11, <1>12, PathConstants

\* Between two bounds along an axis, at a tenth, and away from what is beyond the radius
LEMMA BetweenEnds ==
    ASSUME NEW a \in Int, NEW b \in Int, NEW c \in Int, NEW p \in Int, NEW f \in Nat,
           NEW e \in Nat, a - c <= f, c - a <= f, b - c <= f, c - b <= f,
           NEW i \in 0 .. 10, p - c <= -(f + e) \/ p - c >= f + e
    PROVE  LET x == 10 * a + i * (b - a)
           IN x - 10 * p >= 10 * e \/ 10 * p - x >= 10 * e
<1>1. PICK u \in Int, v \in Int, k \in Int : u = a - c /\ v = b - c /\ k = p - c  OBVIOUS
<1>2. PICK j \in Nat : j = 10 - i  OBVIOUS
<1>3. j * u <= j * f /\ 0 - j * u <= j * f
  <2>1. u <= f /\ 0 - u <= f  BY <1>1
  <2>2. j * u <= j * f  BY <2>1
  <2>3. j * (0 - u) <= j * f  BY <2>1
  <2>4. j * (0 - u) = 0 - j * u  OBVIOUS
  <2> QED  BY <2>2, <2>3, <2>4
<1>4. i * v <= i * f /\ 0 - i * v <= i * f
  <2>1. v <= f /\ 0 - v <= f /\ i \in Nat  BY <1>1
  <2>2. i * v <= i * f  BY <2>1
  <2>3. i * (0 - v) <= i * f  BY <2>1
  <2>4. i * (0 - v) = 0 - i * v  BY <2>1
  <2> QED  BY <2>2, <2>3, <2>4
<1>5. j * f + i * f = 10 * f
  <2>1. i \in Nat  OBVIOUS
  <2>2. (j + i) * f = j * f + i * f  BY <2>1
  <2>3. j + i = 10  BY <1>2, <2>1
  <2> QED  BY <2>2, <2>3
<1>6. 10 * a + i * (b - a) - 10 * c = j * u + i * v
  <2>1. i \in Int  OBVIOUS
  <2>2. j * u = (10 - i) * (a - c) /\ i * v = i * (b - c)  BY <1>1, <1>2
  <2>3. (10 - i) * (a - c) + i * (b - c) = 10 * a + i * (b - a) - 10 * c  BY <2>1
  <2> QED  BY <2>2, <2>3
<1>7. PICK s \in Int, t \in Int, g \in Int, h \in Int :
        s = j * u /\ t = i * v /\ g = j * f /\ h = i * f
  <2>1. i \in Int  OBVIOUS
  <2> QED  BY <2>1
<1>8. PICK x \in Int : x = 10 * a + i * (b - a)
  <2>1. i \in Int  OBVIOUS
  <2> QED  BY <2>1
<1>9. x - 10 * c <= 10 * f /\ 10 * c - x <= 10 * f
  BY <1>3, <1>4, <1>5, <1>6, <1>7, <1>8
<1>10. x - 10 * p >= 10 * e \/ 10 * p - x >= 10 * e
  BY <1>9
<1> QED  BY <1>8, <1>10

\* The point of a chord at a tenth, and a sample of it
LEMMA SampleIs ==
    ASSUME NEW a \in Ego!Position, NEW b \in Ego!Position, NEW i \in Int, NEW n \in Int
    PROVE  /\ Ego!Sample(a, b, i, n) \in Ego!Position
           /\ \A l \in 1 .. 3 : Ego!Sample(a, b, i, n)[l] = n * a[l] + i * (b[l] - a[l])
<1> DEFINE v(l) == n * a[l] + i * (b[l] - a[l])
<1>1. v(1) \in Int /\ v(2) \in Int /\ v(3) \in Int  BY PositionIs
<1>2. Ego!Sample(a, b, i, n) = <<v(1), v(2), v(3)>>  BY DEF Ego!Sample
<1> HIDE DEF v
<1>3. Ego!Sample(a, b, i, n) \in Ego!Position  BY <1>1, <1>2 DEF Ego!Position
<1>4. \A l \in 1 .. 3 : Ego!Sample(a, b, i, n)[l] = v(l)
  <2> TAKE l \in 1 .. 3
  <2>1. l = 1 \/ l = 2 \/ l = 3  OBVIOUS
  <2> QED  BY <1>2, <2>1
<1> QED  BY <1>3, <1>4 DEF v

\* The sample that is nearest to a tenth of a chord of n pieces
LEMMA NearestSample ==
    ASSUME NEW n \in Nat, n >= 1, NEW i \in 0 .. 10
    PROVE  \E j \in 0 .. n : n * i - 10 * j \in -5 .. 5
<1>1. PICK m \in Nat : m = n * i + 5
  <2>1. i \in Nat  OBVIOUS
  <2>2. n * i \in Nat  BY <2>1
  <2> QED  BY <2>2
<1>2. PICK j \in Int : j * 10 <= m /\ m < j * 10 + 10
  <2>1. 10 \in Nat /\ 10 >= 1 /\ m \in Int  OBVIOUS
  <2>2. m \div 10 \in Int /\ (m \div 10) * 10 <= m /\ m < (m \div 10) * 10 + 10
    BY <2>1, CellIs
  <2> QED  BY <2>2
<1>3. m <= 10 * n + 5
  <2>1. i \in Nat /\ i <= 10  OBVIOUS
  <2>2. n * i <= n * 10  BY <2>1
  <2> QED  BY <1>1, <2>2
<1>4. j \in 0 .. n  BY <1>2, <1>3
<1>5. PICK k \in Int : k = n * i
  <2>1. i \in Int  OBVIOUS
  <2> QED  BY <2>1
<1>6. k - 10 * j \in -5 .. 5  BY <1>1, <1>2, <1>5
<1> QED  BY <1>4, <1>5, <1>6

\* The tenth of a chord is no further from its nearest sample than the reserve.
LEMMA SampleIsNear ==
    ASSUME NEW a \in Int, NEW b \in Int, NEW c \in Int, NEW k \in -5 .. 5, NEW m \in Nat,
           a * a + b * b + c * c <= (2 * m) * (2 * m)
    PROVE  (k * a) * (k * a) + (k * b) * (k * b) + (k * c) * (k * c) <= (10 * m) * (10 * m)
<1>1. PICK s \in Nat : s = a * a + b * b + c * c  BY SideOf
<1>2. PICK t \in Nat : t = m * m  OBVIOUS
<1>3. PICK e \in Int : e = k  OBVIOUS
<1>4. (e * a) * (e * a) + (e * b) * (e * b) + (e * c) * (e * c) = (e * e) * s
  <2>1. (e * a) * (e * a) = (e * e) * (a * a) /\ (e * b) * (e * b) = (e * e) * (b * b)
        /\ (e * c) * (e * c) = (e * e) * (c * c)
    OBVIOUS
  <2>2. PICK q \in Nat : q = e * e  OBVIOUS
  <2>3. q * s = q * (a * a) + q * (b * b) + q * (c * c)  BY <1>1
  <2> QED  BY <2>1, <2>2, <2>3
<1>5. PICK q \in Nat : q = e * e /\ q <= 25
  <2>1. e \in {-5, -4, -3, -2, -1, 0, 1, 2, 3, 4, 5}  BY <1>3
  <2> QED  BY <2>1
<1>6. s <= 4 * t
  <2>1. (2 * m) * (2 * m) = 4 * t  BY <1>2
  <2> QED  BY <1>1, <2>1
<1>7. q * s <= 25 * s  BY <1>5
<1>8. (10 * m) * (10 * m) = 100 * t  BY <1>2
<1>9. q * s \in Int  OBVIOUS
<1> QED  BY <1>3, <1>4, <1>5, <1>6, <1>7, <1>8, <1>9

\* A tenth of a chord, in pieces of it, and the sample j
LEMMA Shifts ==
    ASSUME NEW n \in Int, NEW i \in Int, NEW j \in Int, NEW k \in Int, k = n * i - 10 * j,
           NEW u \in Int, NEW v \in Int, NEW w \in Int,
           NEW d, d = (10 * u + i * v) - 10 * w, NEW s, s = (n * u + j * v) - n * w
    PROVE  n * d - k * v = 10 * s
<1>1. k * v = n * i * v - 10 * j * v
  <2>1. (n * i - 10 * j) * v = n * i * v - 10 * j * v  OBVIOUS
  <2> QED  BY <2>1
<1>2. n * ((10 * u + i * v) - 10 * w) = 10 * (n * u) + n * i * v - 10 * (n * w)
  OBVIOUS
<1>3. 10 * ((n * u + j * v) - n * w) = 10 * (n * u) + 10 * j * v - 10 * (n * w)
  OBVIOUS
<1>4. n * i * v \in Int /\ 10 * j * v \in Int /\ n * u \in Int /\ n * w \in Int
  OBVIOUS
<1> QED  BY <1>1, <1>2, <1>3, <1>4

\* The chord that segment() passes keeps its clearance everywhere.
LEMMA ChordIsClear ==
    ASSUME NEW center \in Ego!Position, NEW points, points \subseteq Ego!Position,
           NEW a \in Ego!Position, NEW b \in Ego!Position,
           Ego!Segment(center, points, a, b), NEW i \in 0 .. 10, NEW p \in points
    PROVE  Ego!SquaredDistance(Ego!Sample(a, b, i, 10), Ego!ScaledBy(10, p))
             >= Ego!Square(10 * PathClearance)
<1> DEFINE n == Ego!Pieces(a, b)
           x == Ego!Sample(a, b, i, 10)
           S(j) == Ego!Sample(a, b, j, n)
           C == PathClearance
<1>1. /\ n \in Nat /\ n >= 1
      /\ Ego!SquaredDistance(a, b) <= (2 * Reserve * n) * (2 * Reserve * n)
  BY PiecesAre
<1>2. \A j \in 0 .. n : ~Ego!Blocked(center, points, S(j), n)
  BY DEF Ego!Segment
<1> HIDE DEF n
<1>3. p \in Ego!Position  OBVIOUS
<1>4. \A l \in 1 .. 3 : a[l] \in Int /\ b[l] \in Int /\ p[l] \in Int /\ center[l] \in Int
  <2> TAKE l \in 1 .. 3
  <2>1. l = 1 \/ l = 2 \/ l = 3  OBVIOUS
  <2> QED  BY <1>3, <2>1, PositionIs
<1>5. \A l \in 1 .. 3 : x[l] = 10 * a[l] + i * (b[l] - a[l])
  <2>1. i \in Int  OBVIOUS
  <2> QED  BY <2>1, SampleIs
<1>6. \A j \in 0 .. n : S(j) \in Ego!Position
                        /\ \A l \in 1 .. 3 : S(j)[l] = n * a[l] + j * (b[l] - a[l])
  <2> TAKE j \in 0 .. n
  <2>1. j \in Int /\ n \in Int  BY <1>1
  <2> QED  BY <2>1, SampleIs
<1>7. PICK x1 \in Int, x2 \in Int, x3 \in Int : x1 = x[1] /\ x2 = x[2] /\ x3 = x[3]
  <2>1. i \in Int  OBVIOUS
  <2>2. \A l \in 1 .. 3 : x[l] \in Int  BY <1>4, <1>5, <2>1
  <2> QED  BY <2>2
<1>8. PICK d1 \in Int, d2 \in Int, d3 \in Int :
        d1 = x1 - 10 * p[1] /\ d2 = x2 - 10 * p[2] /\ d3 = x3 - 10 * p[3]
  BY <1>4
<1>9. Ego!SquaredDistance(x, Ego!ScaledBy(10, p)) = d1 * d1 + d2 * d2 + d3 * d3
  <2> DEFINE r == Ego!ScaledBy(10, p)
  <2>1. r = <<10 * p[1], 10 * p[2], 10 * p[3]>>  BY DEF Ego!ScaledBy
  <2>2. r \in Ego!Position /\ r[1] = 10 * p[1] /\ r[2] = 10 * p[2] /\ r[3] = 10 * p[3]
    BY <1>4, <2>1 DEF Ego!Position
  <2>3. i \in Int /\ x \in Ego!Position
    <3>1. i \in Int /\ 10 \in Int  OBVIOUS
    <3> QED  BY <3>1, SampleIs
  <2> HIDE DEF r, x
  <2>4. Ego!SquaredDistance(x, r) =
          (r[1] - x[1]) * (r[1] - x[1]) + (r[2] - x[2]) * (r[2] - x[2])
            + (r[3] - x[3]) * (r[3] - x[3])
    BY <2>2, <2>3, DistanceIs
  <2>5. r[1] - x[1] = 0 - d1 /\ r[2] - x[2] = 0 - d2 /\ r[3] - x[3] = 0 - d3
    BY <1>4, <1>7, <1>8, <2>2
  <2>6. (0 - d1) * (0 - d1) = d1 * d1 /\ (0 - d2) * (0 - d2) = d2 * d2
        /\ (0 - d3) * (0 - d3) = d3 * d3
    OBVIOUS
  <2> QED  BY <2>4, <2>5, <2>6 DEF r
<1>10. C \in Nat  BY PathConstants
<1> HIDE DEF x, S, C
<1>11. CASE p \in Ego!Sources(center, points)
  <2>1. PICK j \in 0 .. n : n * i - 10 * j \in -5 .. 5  BY <1>1, NearestSample
  <2>2. PICK k \in -5 .. 5 : k = n * i - 10 * j  BY <2>1
  <2>3. PICK e1 \in Int, e2 \in Int, e3 \in Int :
          e1 = b[1] - a[1] /\ e2 = b[2] - a[2] /\ e3 = b[3] - a[3]
    BY <1>4
  <2>4. PICK m \in Nat : m = Reserve * n  BY <1>1, PathConstants
  <2>5. e1 * e1 + e2 * e2 + e3 * e3 <= (2 * m) * (2 * m)
    <3>1. Ego!SquaredDistance(a, b) = e1 * e1 + e2 * e2 + e3 * e3  BY <2>3, DistanceIs
    <3>2. 2 * Reserve * n = 2 * m  BY <1>1, <2>4, PathConstants
    <3> QED  BY <1>1, <3>1, <3>2
  <2>6. (k * e1) * (k * e1) + (k * e2) * (k * e2) + (k * e3) * (k * e3)
          <= (10 * m) * (10 * m)
    BY <2>5, SampleIsNear
  <2>7. PICK f1 \in Int, f2 \in Int, f3 \in Int :
          f1 = k * e1 /\ f2 = k * e2 /\ f3 = k * e3
    <3>1. k \in Int  OBVIOUS
    <3> QED  BY <3>1
  <2>8. PICK s1 \in Int, s2 \in Int, s3 \in Int :
          s1 = S(j)[1] - n * p[1] /\ s2 = S(j)[2] - n * p[2] /\ s3 = S(j)[3] - n * p[3]
    <3>1. j \in Int  OBVIOUS
    <3>2. \A l \in 1 .. 3 : S(j)[l] - n * p[l] \in Int
      <4> TAKE l \in 1 .. 3
      <4>1. S(j)[l] = n * a[l] + j * (b[l] - a[l])  BY <1>6
      <4> QED  BY <1>1, <1>4, <3>1, <4>1
    <3> QED  BY <3>2
  <2>9. n * d1 - f1 = 10 * s1 /\ n * d2 - f2 = 10 * s2 /\ n * d3 - f3 = 10 * s3
    <3>2. d1 = (10 * a[1] + i * e1) - 10 * p[1] /\ d2 = (10 * a[2] + i * e2) - 10 * p[2]
          /\ d3 = (10 * a[3] + i * e3) - 10 * p[3]
      BY <1>5, <1>7, <1>8, <2>3
    <3>3. s1 = (n * a[1] + j * e1) - n * p[1] /\ s2 = (n * a[2] + j * e2) - n * p[2]
          /\ s3 = (n * a[3] + j * e3) - n * p[3]
      BY <1>6, <2>3, <2>8
    <3>4. i \in Int /\ j \in Int /\ k \in Int  OBVIOUS
    <3>5. n * d1 - k * e1 = 10 * s1
      <4>1. PICK u \in Int, w \in Int : u = a[1] /\ w = p[1]  BY <1>4
      <4>2. d1 = (10 * u + i * e1) - 10 * w  BY <3>2, <4>1
      <4>3. s1 = (n * u + j * e1) - n * w  BY <3>3, <4>1
      <4> QED  BY ONLY <1>1, <2>2, <3>4, <4>2, <4>3, e1 \in Int, u \in Int, w \in Int, Shifts
    <3>6. n * d2 - k * e2 = 10 * s2
      <4>1. PICK u \in Int, w \in Int : u = a[2] /\ w = p[2]  BY <1>4
      <4>2. d2 = (10 * u + i * e2) - 10 * w  BY <3>2, <4>1
      <4>3. s2 = (n * u + j * e2) - n * w  BY <3>3, <4>1
      <4> QED  BY ONLY <1>1, <2>2, <3>4, <4>2, <4>3, e2 \in Int, u \in Int, w \in Int, Shifts
    <3>7. n * d3 - k * e3 = 10 * s3
      <4>1. PICK u \in Int, w \in Int : u = a[3] /\ w = p[3]  BY <1>4
      <4>2. d3 = (10 * u + i * e3) - 10 * w  BY <3>2, <4>1
      <4>3. s3 = (n * u + j * e3) - n * w  BY <3>3, <4>1
      <4> QED  BY ONLY <1>1, <2>2, <3>4, <4>2, <4>3, e3 \in Int, u \in Int, w \in Int, Shifts
    <3> QED  BY <2>7, <3>5, <3>6, <3>7
  <2>10. PICK h \in Nat : h = n * Ego!Inflated  BY <1>1, PathConstants
  <2>11. s1 * s1 + s2 * s2 + s3 * s3 > h * h
    <3>1. S(j) \in Ego!Position /\ ~Ego!Blocked(center, points, S(j), n)  BY <1>2, <1>6
    <3> DEFINE q == S(j)
    <3> HIDE DEF q
    <3>2. q \in Ego!Position /\ ~Ego!Blocked(center, points, q, n)  BY <3>1 DEF q
    <3>3. (q[1] - n * p[1]) * (q[1] - n * p[1]) + (q[2] - n * p[2]) * (q[2] - n * p[2])
            + (q[3] - n * p[3]) * (q[3] - n * p[3])
            > (n * Ego!Inflated) * (n * Ego!Inflated)
      BY <1>1, <1>11, <3>2, AwayFromSources
    <3> QED  BY <2>8, <2>10, <3>3 DEF q
  <2>12. PICK u \in Nat : u = 10 * C  BY <1>10
  <2>13. ~(d1 * d1 + d2 * d2 + d3 * d3 < u * u)
    <3> SUFFICES ASSUME d1 * d1 + d2 * d2 + d3 * d3 < u * u PROVE FALSE  OBVIOUS
    <3>1. PICK g1 \in Int, g2 \in Int, g3 \in Int :
            g1 = n * d1 /\ g2 = n * d2 /\ g3 = n * d3
      BY <1>1
    <3>2. PICK v \in Nat : v = n * u  BY <1>1
    <3>3. g1 * g1 + g2 * g2 + g3 * g3 < v * v
      BY <1>1, <3>1, <3>2, ScaledLength
    <3>4. PICK w \in Nat : w = 10 * m  OBVIOUS
    <3>5. f1 * f1 + f2 * f2 + f3 * f3 <= w * w  BY <2>6, <2>7, <3>4
    <3>6. (g1 - f1) * (g1 - f1) + (g2 - f2) * (g2 - f2) + (g3 - f3) * (g3 - f3)
            < (v + w) * (v + w)
      BY <3>3, <3>5, Triangle
    <3>7. v + w = 10 * h
      <4>1. h = n * C + n * Reserve  BY <1>1, <1>10, <2>10, PathConstants DEF C
      <4>2. v = 10 * (n * C)  BY <1>1, <1>10, <2>12, <3>2
      <4>3. w = 10 * (n * Reserve)  BY <1>1, <2>4, <3>4, PathConstants
      <4>4. n * C \in Int /\ n * Reserve \in Int  BY <1>1, <1>10, PathConstants
      <4> QED  BY <4>1, <4>2, <4>3, <4>4
    <3>8. g1 - f1 = 10 * s1 /\ g2 - f2 = 10 * s2 /\ g3 - f3 = 10 * s3  BY <2>9, <3>1
    <3>9. (10 * s1) * (10 * s1) + (10 * s2) * (10 * s2) + (10 * s3) * (10 * s3)
            < (10 * h) * (10 * h)
      BY <3>6, <3>7, <3>8
    <3>10. s1 * s1 + s2 * s2 + s3 * s3 < h * h
      <4>1. 10 \in Nat /\ 10 >= 1  OBVIOUS
      <4> QED  BY <3>9, <4>1, ScaledLength
    <3>11. PICK s \in Nat, t \in Nat : s = s1 * s1 + s2 * s2 + s3 * s3 /\ t = h * h
      <4>1. s1 * s1 + s2 * s2 + s3 * s3 \in Nat  BY SideOf
      <4> QED  BY <4>1
    <3> QED  BY <2>11, <3>10, <3>11
  <2>14. PICK s \in Nat, t \in Nat : s = d1 * d1 + d2 * d2 + d3 * d3 /\ t = u * u
    <3>1. d1 * d1 + d2 * d2 + d3 * d3 \in Nat  BY SideOf
    <3> QED  BY <3>1
  <2>15. s >= t  BY <2>13, <2>14
  <2>16. Ego!Square(10 * PathClearance) = t  BY <2>12, <2>14 DEF Ego!Square, C
  <2> QED  BY <1>9, <2>14, <2>15, <2>16 DEF x
<1>12. CASE p \notin Ego!Sources(center, points)
  <2>1. ~Ego!InGrid(Ego!Cell(Ego!Origin(center), p))  BY <1>12 DEF Ego!Sources
  <2>2. PICK l \in 1 .. 3 : p[l] - center[l] <= -Radius \/ p[l] - center[l] >= Radius
    BY <1>3, <2>1, OutsideGrid
  <2>3. 0 \in 0 .. n /\ n \in 0 .. n  BY <1>1
  <2>4. PICK u \in Int, v \in Int, w \in Int, y \in Int :
          u = a[l] /\ v = b[l] /\ w = center[l] /\ y = p[l]
    BY <1>4
  <2>5. S(0)[l] = n * u /\ S(n)[l] = n * v
    <3>1. S(0)[l] = n * u + 0 * (v - u) /\ S(n)[l] = n * u + n * (v - u)
      BY <1>6, <2>3, <2>4
    <3> QED  BY <1>1, <3>1
  <2>6. /\ Radius >= PathClearance
        /\ S(0)[l] - n * w <= n * (Radius - PathClearance)
        /\ n * w - S(0)[l] <= n * (Radius - PathClearance)
        /\ S(n)[l] - n * w <= n * (Radius - PathClearance)
        /\ n * w - S(n)[l] <= n * (Radius - PathClearance)
    <3>1. S(0) \in Ego!Position /\ ~Ego!Blocked(center, points, S(0), n)  BY <1>2, <1>6, <2>3
    <3>2. S(n) \in Ego!Position /\ ~Ego!Blocked(center, points, S(n), n)  BY <1>2, <1>6, <2>3
    <3>3. /\ Radius >= PathClearance
          /\ S(0)[l] - n * w <= n * (Radius - PathClearance)
          /\ n * w - S(0)[l] <= n * (Radius - PathClearance)
      BY <1>1, <2>4, <3>1, WithinBall
    <3>4. /\ S(n)[l] - n * w <= n * (Radius - PathClearance)
          /\ n * w - S(n)[l] <= n * (Radius - PathClearance)
      BY <1>1, <2>4, <3>2, WithinBall
    <3> QED  BY <3>3, <3>4
  <2>7. PICK f \in Nat : f = Radius - PathClearance  BY <2>6, PathConstants
  <2>8. u - w <= f /\ w - u <= f /\ v - w <= f /\ w - v <= f
    <3>1. ASSUME NEW g \in Int, n * g <= n * f PROVE g <= f
      <4> SUFFICES ASSUME g > f PROVE FALSE  OBVIOUS
      <4>1. n * g >= n * (f + 1)  BY <1>1
      <4>2. n * (f + 1) = n * f + n  BY <1>1
      <4>3. n * g \in Int /\ n * f \in Int  BY <1>1
      <4> QED  BY <1>1, <3>1, <4>1, <4>2, <4>3
    <3>2. n * (u - w) = n * u - n * w /\ n * (w - u) = n * w - n * u
          /\ n * (v - w) = n * v - n * w /\ n * (w - v) = n * w - n * v
      BY <1>1
    <3>3. n * (u - w) <= n * f /\ n * (w - u) <= n * f
          /\ n * (v - w) <= n * f /\ n * (w - v) <= n * f
      BY <2>5, <2>6, <2>7, <3>2
    <3> QED  BY <3>1, <3>3
  <2>9. Radius = f + C  BY <2>6, <2>7, PathConstants DEF C
  <2>10. PICK z \in Int : z = 10 * u + i * (v - u)
    <3>1. i \in Int  OBVIOUS
    <3> QED  BY <3>1
  <2>11. z - 10 * y >= 10 * C \/ 10 * y - z >= 10 * C
    <3>1. y - w <= -(f + C) \/ y - w >= f + C  BY <2>2, <2>4, <2>9
    <3> QED  BY <1>10, <2>8, <2>10, <3>1, BetweenEnds
  <2>12. PICK d \in Int : d = z - 10 * y  OBVIOUS
  <2>13. d = d1 \/ d = d2 \/ d = d3
    <3>1. l = 1 \/ l = 2 \/ l = 3  OBVIOUS
    <3> QED  BY <1>5, <1>7, <1>8, <2>4, <2>10, <2>12, <3>1
  <2>14. PICK e \in Nat : e = 10 * C  BY <1>10
  <2>15. e * e <= d * d
    <3>1. PICK g \in Nat : g = Ego!Magnitude(d) /\ g * g = d * d  BY MagnitudeIs
    <3>2. e <= g  BY <2>11, <2>12, <2>14, <3>1 DEF Ego!Magnitude
    <3> QED  BY <3>1, <3>2, SquareOrder
  <2>16. PICK s \in Nat : s = d1 * d1 + d2 * d2 + d3 * d3  BY SideOf
  <2>17. d * d <= s
    <3>1. d1 * d1 <= s /\ d2 * d2 <= s /\ d3 * d3 <= s  BY <2>16, SideOf
    <3> QED  BY <2>13, <3>1
  <2>18. PICK t \in Nat, g \in Nat : t = e * e /\ g = d * d  OBVIOUS
  <2>19. Ego!Square(10 * PathClearance) = t  BY <2>14, <2>18 DEF Ego!Square, C
  <2>20. s >= t  BY <2>15, <2>17, <2>18
  <2> QED  BY <1>9, <2>16, <2>19, <2>20 DEF x
<1> QED  BY <1>11, <1>12

ClearOf(a, b, points) ==
    \A q \in Ego!OnChord(a, b), p \in points :
        Ego!SquaredDistance(q, Ego!ScaledBy(10, p)) >= Ego!Square(10 * PathClearance)

Asked(r) ==
    /\ r.start \in Ego!Position /\ r.goal \in Ego!Position /\ r.points \subseteq Ego!Position

\* The obstacles of a request are away from every chord that segment() passes for it.
LEMMA SegmentIsClear ==
    ASSUME NEW r, Asked(r), NEW a \in Ego!Position, NEW b \in Ego!Position,
           Ego!Segment(r.start, r.points, a, b)
    PROVE  ClearOf(a, b, r.points)
<1> SUFFICES ASSUME NEW q \in Ego!OnChord(a, b), NEW p \in r.points
             PROVE  Ego!SquaredDistance(q, Ego!ScaledBy(10, p)) >= Ego!Square(10 * PathClearance)
  BY DEF ClearOf
<1>1. PICK i \in 0 .. 10 : q = Ego!Sample(a, b, i, 10)  BY DEF Ego!OnChord
<1>2. r.start \in Ego!Position /\ r.points \subseteq Ego!Position  BY DEF Asked
<1> QED  BY <1>1, <1>2, ChordIsClear

\* The way to the goal, cut at the range of the planner
LEMMA TargetIs ==
    ASSUME NEW r, Asked(r), Ego!PlanRange > 0
    PROVE  Ego!Target(r) \in Ego!Position
<1> DEFINE D == Ego!SquaredDistance(r.start, r.goal)
           d == Ego!Distance(r.start, r.goal)
           R == Ego!PlanRange
           s == r.start
           g == r.goal
           T == {k \in Nat : D < (k + 1) * (k + 1)}
<1>1. D \in Nat  BY DistanceIs DEF Asked
<1> HIDE DEF D
<1>2. T \subseteq Nat /\ \A k \in T : D < (k + 1) * (k + 1)  OBVIOUS
<1>3. \A k \in Nat : k \notin T => (k + 1) * (k + 1) <= D
  <2> SUFFICES ASSUME NEW k \in Nat, k \notin T PROVE (k + 1) * (k + 1) <= D  OBVIOUS
  <2>1. PICK m \in Nat : m = (k + 1) * (k + 1)  OBVIOUS
  <2>2. ~(D < m)  BY <2>1
  <2> QED  BY <1>1, <2>1, <2>2
<1>4. D \in T
  <2>1. (D + 1) * (D + 1) = D * D + 2 * D + 1 /\ D * D >= 0  BY <1>1
  <2>2. D < (D + 1) * (D + 1)  BY <1>1, <2>1
  <2> QED  BY <1>1, <2>2
<1> HIDE DEF T
<1>5. PICK k \in T : \A m \in T : k <= m  BY <1>2, <1>4, Smallest
<1>6. k \in 0 .. D  BY <1>1, <1>2, <1>4, <1>5
<1>7. k * k <= D
  <2>1. CASE k = 0  BY <1>1, <2>1
  <2>2. CASE k # 0
    <3>1. k - 1 \in Nat /\ k - 1 \notin T  BY <1>2, <1>5, <2>2
    <3>2. ((k - 1) + 1) * ((k - 1) + 1) <= D  BY <1>3, <3>1
    <3>3. (k - 1) + 1 = k  BY <1>2
    <3> QED  BY <3>2, <3>3
  <2> QED  BY <2>1, <2>2
<1>8. \E m \in 0 .. D : Ego!Square(m) <= D /\ D < Ego!Square(m + 1)
  BY <1>2, <1>6, <1>7 DEF Ego!Square
<1>9. d \in 0 .. D  BY <1>8 DEF Ego!Distance, D
<1> HIDE DEF d
<1>10. d \in Nat  BY <1>1, <1>9
<1>11. R \in Int
  <2>1. PathHorizon \in Int /\ Radius - PathClearance - Margin \in Int  BY PathConstants
  <2>2. ASSUME NEW a \in Int, NEW b \in Int PROVE Ego!Min({a, b}) \in Int
    BY DEF Ego!Min
  <2> QED  BY <2>1, <2>2 DEF Ego!PlanRange
<1> HIDE DEF R
<1>12. /\ s \in Ego!Position /\ g \in Ego!Position  BY DEF Asked
<1>13. CASE d > R
  <2> DEFINE along(i) == s[i] + ((g[i] - s[i]) * R) \div d
  <2>1. d >= 1  BY <1>10, <1>11, <1>13 DEF R
  <2>2. Ego!Target(r) = <<along(1), along(2), along(3)>>
    BY <1>13 DEF Ego!Target, R, d
  <2>3. ASSUME NEW i \in 1 .. 3 PROVE along(i) \in Int
    <3>1. s[i] \in Int /\ g[i] \in Int
      <4>1. i = 1 \/ i = 2 \/ i = 3  OBVIOUS
      <4> QED  BY <1>12, <4>1, PositionIs
    <3>2. PICK u \in Int : u = (g[i] - s[i]) * R  BY <1>11, <3>1
    <3>3. u \div d \in Int  BY <1>10, <2>1, CellIs
    <3> QED  BY <3>1, <3>2, <3>3
  <2> HIDE DEF along
  <2> QED  BY <2>2, <2>3 DEF Ego!Position
<1>14. CASE ~(d > R)
  <2>1. Ego!Target(r) = g  BY <1>14 DEF Ego!Target, R, d
  <2> QED  BY <1>12, <2>1
<1> QED  BY <1>13, <1>14

\* The point that is tracked can be reached straight from the start.
LEMMA TrackingIs ==
    ASSUME NEW r, NEW local \in Seq(Ego!Position), Ego!Audited(r, local), local # <<>>
    PROVE  /\ Ego!Tracking(r, local) = r.start \/ Ego!Tracking(r, local) \in Ego!Position
           /\ Ego!Segment(r.start, r.points, r.start, Ego!Tracking(r, local))
<1> DEFINE n == Len(local)
           F(k) == \A i \in 1 .. k : /\ Ego!Within(r.start, local[i], Chord)
                                     /\ Ego!Segment(r.start, r.points, r.start, local[i])
           T == {k \in 0 .. n : k < n => ~F(k + 1)}
           last == CHOOSE k \in 0 .. n : F(k) /\ (k < n => ~F(k + 1))
<1>1. n \in Nat /\ n >= 1 /\ DOMAIN local = 1 .. n /\ \A i \in 1 .. n : local[i] \in Ego!Position
  BY LenProperties, ElementOfSeq
<1> HIDE DEF n
<1>2. Ego!Tracking(r, local) = IF last = 0 THEN r.start ELSE local[last]
  BY DEF Ego!Tracking, n
<1>3. F(0)  OBVIOUS
<1>4. n \in T /\ T \subseteq Nat /\ T \subseteq 0 .. n  BY <1>1
<1>5. \A k \in T : k < n => ~F(k + 1)  OBVIOUS
<1>6. \A k \in 0 .. n : k \notin T => F(k + 1)  OBVIOUS
<1> HIDE DEF F, T
<1>7. PICK k \in T : \A m \in T : k <= m  BY <1>4, Smallest
<1>8. F(k)
  <2>1. CASE k = 0  BY <1>3, <2>1
  <2>2. CASE k # 0
    <3>1. k - 1 \in 0 .. n /\ k - 1 \notin T  BY <1>1, <1>4, <1>7, <2>2
    <3>2. F((k - 1) + 1)  BY <1>6, <3>1
    <3>3. (k - 1) + 1 = k  BY <1>4
    <3> QED  BY <3>2, <3>3
  <2> QED  BY <2>1, <2>2
<1>9. last \in 0 .. n /\ F(last)  BY <1>4, <1>5, <1>7, <1>8
<1> HIDE DEF last
<1>10. CASE last = 0
  <2>1. 1 \in DOMAIN local /\ local[1] = r.start  BY <1>1 DEF Ego!Audited
  <2>2. Ego!Segment(r.start, r.points, r.start, r.start)  BY <2>1 DEF Ego!Audited
  <2> QED  BY <1>2, <1>10, <2>2
<1>11. CASE last # 0
  <2>1. last \in 1 .. n /\ last \in 1 .. last  BY <1>1, <1>9, <1>11
  <2>2. Ego!Segment(r.start, r.points, r.start, local[last])  BY <1>9, <2>1 DEF F
  <2> QED  BY <1>1, <1>2, <1>11, <2>1, <2>2
<1> QED  BY <1>10, <1>11

\* A path that may be answered is clear, and so is the way to its tracking target.
LEMMA PlannedIsClear ==
    ASSUME NEW r, Asked(r), NEW local \in Seq(Ego!Position), local # <<>>,
           Ego!Audited(r, local)
    PROVE  /\ \A i \in 1 .. Len(local) - 1 : ClearOf(local[i], local[i + 1], r.points)
           /\ ClearOf(r.start, Ego!Tracking(r, local), r.points)
<1> DEFINE n == Len(local)
<1>1. n \in Nat /\ DOMAIN local = 1 .. n /\ \A i \in 1 .. n : local[i] \in Ego!Position
  BY LenProperties, ElementOfSeq
<1> HIDE DEF n
<1>2. ASSUME NEW i \in 1 .. n - 1 PROVE ClearOf(local[i], local[i + 1], r.points)
  <2>1. i + 1 \in DOMAIN local /\ i + 1 # 1 /\ (i + 1) - 1 = i /\ i \in 1 .. n /\ i + 1 \in 1 .. n
    BY <1>1
  <2>2. Ego!Segment(r.start, r.points, local[i], local[i + 1])
    <3> DEFINE j == i + 1
    <3>1. j \in DOMAIN local /\ j # 1 /\ j - 1 = i  BY <2>1
    <3> HIDE DEF j
    <3>2. Ego!Segment(r.start, r.points, local[j - 1], local[j])  BY <3>1 DEF Ego!Audited
    <3> QED  BY <3>1, <3>2 DEF j
  <2> QED  BY <1>1, <2>1, <2>2, SegmentIsClear
<1>3. ClearOf(r.start, Ego!Tracking(r, local), r.points)
  <2> DEFINE t == Ego!Tracking(r, local)
  <2>1. r.start \in Ego!Position  BY DEF Asked
  <2>2. t \in Ego!Position /\ Ego!Segment(r.start, r.points, r.start, t)
    BY <2>1, TrackingIs
  <2> HIDE DEF t
  <2>3. ClearOf(r.start, t, r.points)  BY <2>1, <2>2, SegmentIsClear
  <2> QED  BY <2>3 DEF t
<1> QED  BY <1>2, <1>3 DEF n

PathInv == Ego!PathsAreClear /\ Ego!BlockersAreTaken

\* A plan answers with paths that are clear, or fails; both take the blockers away.
LEMMA PathStep == PathInv /\ [Ego!Next]_Ego!egoVars => PathInv'
<1> SUFFICES ASSUME PathInv, [Ego!Next]_Ego!egoVars PROVE PathInv'  OBVIOUS
<1>1. CASE UNCHANGED Ego!egoVars
  BY <1>1 DEF Ego!egoVars, PathInv, Ego!PathsAreClear, Ego!BlockersAreTaken
<1>2. CASE \E r \in Ego!Requests : Ego!Plan(r)
  <2>1. PICK r \in Ego!Requests : Ego!Plan(r)  BY <1>2
  <2>2. request' = r /\ Ego!ShowBlockers(r)  BY <2>1 DEF Ego!Plan
  <2>3. Ego!BlockersAreTaken'
    BY <2>2 DEF Ego!ShowBlockers, Ego!BlockersAreTaken, PathInv
  <2>4. Asked(r)
    <3>1. r.start \in Starts /\ r.goal \in Goals /\ r.points \subseteq Obstacles
      BY DEF Ego!Requests
    <3> QED  BY <3>1, PathConstants DEF Asked
  <2>5. PICK local \in (IF Ego!Near(r) THEN {<<r.start, Ego!Target(r)>>} ELSE Ego!Curves(r)),
             late \in BOOLEAN :
               IF Ego!Plans(r, local, late) THEN Ego!Succeed(r, local) ELSE Ego!Fail
    BY <2>1 DEF Ego!Plan
  <2>6. CASE Ego!Plans(r, local, late) /\ Ego!Succeed(r, local)
    <3>1. Ego!Audited(r, local) /\ Ego!PlanRange > 0
      BY <2>6 DEF Ego!Plans, Ego!TargetFree
    <3> DEFINE t == Ego!Target(r)
               s == r.start
    <3>2. t \in Ego!Position /\ s \in Ego!Position  BY <2>4, <3>1, TargetIs DEF Asked
    <3>3. local \in Seq(Ego!Position) /\ local # <<>>
      <4>1. local = <<s, t>> \/ local = <<s, s>> \/ \E v \in Vias : local = <<s, v, t>>
        BY <2>5 DEF Ego!Curves
      <4> HIDE DEF s, t
      <4>2. CASE local = <<s, t>>  BY <3>2, <4>2
      <4>3. CASE local = <<s, s>>  BY <3>2, <4>3
      <4>4. CASE \E v \in Vias : local = <<s, v, t>>
        <5>1. PICK v \in Ego!Position : local = <<s, v, t>>  BY <4>4, PathConstants
        <5> QED  BY <3>2, <5>1
      <4> QED  BY <4>1, <4>2, <4>3, <4>4
    <3>4. /\ \A i \in 1 .. Len(local) - 1 : ClearOf(local[i], local[i + 1], r.points)
          /\ ClearOf(r.start, Ego!Tracking(r, local), r.points)
      BY <2>4, <3>1, <3>3, PlannedIsClear
    <3>5. answer'.path = local /\ answer'.tracking = Ego!Tracking(r, local)
      BY <2>6 DEF Ego!Succeed
    <3>6. local[1] = r.start /\ local[Len(local)] = Ego!Target(r)
      BY <3>1 DEF Ego!Audited
    <3>7. Ego!PathsAreClear'
      BY <2>2, <3>4, <3>5, <3>6 DEF Ego!PathsAreClear, ClearOf
    <3> QED  BY <2>3, <3>7 DEF PathInv
  <2>7. CASE Ego!Fail
    <3>1. answer'.success = FALSE  BY <2>7 DEF Ego!Fail
    <3>2. Ego!PathsAreClear'  BY <3>1 DEF Ego!PathsAreClear
    <3> QED  BY <2>3, <3>2 DEF PathInv
  <2> QED  BY <2>5, <2>6, <2>7
<1> QED  BY <1>1, <1>2 DEF Ego!Next

\* No obstacle is nearer than the clearance to any tenth of a path that is returned, nor
\* of the way to its tracking target, for any resolution, clearance and horizon, and
\* whatever curve the optimizer returned; and no blocker stays shown (ego_node.cpp,
\* grid_map.h).
THEOREM PathsKeepClear == PlanningSpec => []PathsAreClear
<1>1. PlanningInit => PathInv
  <2> SUFFICES ASSUME PlanningInit PROVE PathInv  OBVIOUS
  <2>1. shown = {} /\ answer.success = FALSE  BY DEF PlanningInit, Ego!Init
  <2> QED  BY <2>1 DEF PathInv, Ego!PathsAreClear, Ego!BlockersAreTaken
<1>2. PathInv /\ [PlanningNext]_planning => PathInv'
  BY PathMoves, PathStep
<1>3. PathInv => PathsAreClear  BY DEF PathInv, PathsAreClear
<1> QED  BY <1>1, <1>2, <1>3, PTL DEF PlanningSpec
===============================================================================
