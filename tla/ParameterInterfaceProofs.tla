---------------------- MODULE ParameterInterfaceProofs ----------------------
(***************************************************************************)
(* Theorems about the parameter interface of the Foxglove bridge, for      *)
(* every set of clients and parameters and whatever lists clients send.    *)
(***************************************************************************)
EXTENDS ParameterInterface, TLAPS

\* A node that failed is not asked any more, and only who holds the mutex asks.
Asking ==
    \A c \in Clients :
        /\ job[c].left \cap job[c].failed = {}
        /\ job[c].kind \notin Holding => job[c].left = {}

\* The mutex has one holder.
Alone ==
    \A c, d \in Clients : c # d => job[c].kind \notin Holding \/ job[d].kind \notin Holding

\* The inductive invariant.
IInv == TypeOK /\ NodesServed /\ AnswersWhole /\ Asking /\ Alone

\* The names in a request are parameters.
LEMMA RequestsAreParams ==
    /\ \A named \in Requests : named \subseteq Params
    /\ \A names \in Names : ToSet(names) \subseteq Params /\ Accepted(names) \subseteq Params \cap Allowed
<1>1. ASSUME NEW names \in Names
      PROVE  ToSet(names) \subseteq Params /\ Accepted(names) \subseteq Params \cap Allowed
  <2>1. names \in Seq(Params)
    BY ParamAssumption
  <2>2. DOMAIN names = 1 .. Len(names) /\ \A i \in DOMAIN names : names[i] \in Params
    BY <2>1
  <2>3. ToSet(names) \subseteq Params
    BY <2>2 DEF ToSet
  <2>4. \A i \in DOMAIN names : i \in 1 .. i
    BY <2>2
  <2>5. Accepted(names) \subseteq Allowed
    BY <2>2, <2>4 DEF Accepted
  <2> QED
    BY <2>2, <2>3, <2>5 DEF Accepted
<1> QED
  BY <1>1 DEF Requests

\* A parameter is of one of the nodes.
LEMMA NodesOfParams ==
    ASSUME NEW P, P \subseteq Params
    PROVE  /\ {p.node : p \in P} \subseteq Nodes
           /\ \A n : Of(n, P) \subseteq P
BY DEF Nodes, Of

\* The records that jobs start with.
LEMMA JobSound ==
    ASSUME NEW kind \in {"none", "echo"} \cup Holding, NEW asked \in SUBSET Params,
           NEW left \in SUBSET Nodes, NEW unset \in SUBSET Optional,
           NEW all \in BOOLEAN, NEW echo \in BOOLEAN
    PROVE  /\ Job(kind, asked, left) \in Jobs
           /\ [Job(kind, asked, left) EXCEPT !.all = all] \in Jobs
           /\ [Job(kind, asked, left) EXCEPT !.unset = unset] \in Jobs
           /\ [Job(kind, asked, left) EXCEPT !.unset = unset, !.echo = echo] \in Jobs
BY DEF Job, Jobs

LEMMA NoJobSound == NoJob \in Jobs /\ NoJob.kind = "none" /\ NoJob.left = {} /\ NoJob.failed = {}
<1>1. Job("none", {}, {}) \in Jobs
  BY DEF Job, Jobs
<1> QED
  BY <1>1 DEF NoJob, Job

LEMMA InitInvariant == Init => IInv
<1> SUFFICES ASSUME Init PROVE IInv
  OBVIOUS
<1> USE DEF Init
<1>1. job \in [Clients -> Jobs] /\ \A c \in Clients : job[c] = NoJob
  BY NoJobSound
<1>2. event \in Events
  BY DEF Events, NoEvent
<1>3. DOMAIN wanted = {}
  BY DEF EmptyMap
<1>4. TypeOK
  BY <1>1, <1>2, <1>3 DEF TypeOK
<1>5. NodesServed
  BY <1>3 DEF NodesServed
<1>6. AnswersWhole /\ Asking /\ Alone
  BY <1>1, NoJobSound DEF AnswersWhole, Whole, Asking, Alone, Holding
<1> QED
  BY <1>4, <1>5, <1>6 DEF IInv

\* What only concerns one client's job leaves the rest as it is.  What the nodes
\* have may change with it while no get is at work.
LEMMA JobStep ==
    ASSUME IInv, UNCHANGED subscriptionVars, NEW c \in Clients, NEW new \in Jobs,
           job' = [job EXCEPT ![c] = new],
           declared' \subseteq Params,
           \/ UNCHANGED declared
           \/ new.kind # "get" /\ \A d \in Clients : d # c => job[d].kind # "get",
           Whole(new),
           new.left \cap new.failed = {},
           new.kind \notin Holding => new.left = {},
           new.kind \in Holding => \A d \in Clients : d # c => job[d].kind \notin Holding
    PROVE  IInv'
<1> USE DEF IInv
<1>1. job \in [Clients -> Jobs]
  BY DEF TypeOK
<1>2. \A d \in Clients : job'[d] = IF d = c THEN new ELSE job[d]
  BY <1>1
<1>3. TypeOK'
  BY <1>1 DEF TypeOK, subscriptionVars
<1>4. NodesServed'
  BY DEF NodesServed, subscriptionVars
<1>5. AnswersWhole'
  <2> SUFFICES ASSUME NEW d \in Clients PROVE Whole(job[d])'
    BY DEF AnswersWhole
  <2>1. Whole(job'[d])
    BY <1>2 DEF AnswersWhole
  <2>2. job'[d].kind = "get" => UNCHANGED declared
    BY <1>2
  <2> QED
    BY <2>1, <2>2 DEF Whole
<1>6. Asking'
  BY <1>2 DEF Asking
<1>7. Alone'
  BY <1>2 DEF Alone
<1> QED
  BY <1>3, <1>4, <1>5, <1>6, <1>7

\* While the mutex is free nobody holds it.
LEMMA NobodyHolds ==
    ASSUME Unlocked PROVE \A d \in Clients : job[d].kind \notin Holding
BY DEF Unlocked

\* A get that starts asks the nodes of parameters and has no answers yet; one that
\* breaks off will have none.
LEMMA StartGetSound ==
    ASSUME IInv, UNCHANGED <<declared, subscriptionVars>>, Unlocked, NEW c \in Clients,
           NEW named \in SUBSET Params, StartGet(c, named)
    PROVE  IInv'
<1>0. PICK asked \in SUBSET Params, all \in BOOLEAN : AskNodes(c, asked, all)
  BY DEF StartGet
<1>1. \/ job' = [job EXCEPT ![c] = [Job("get", asked, {p.node : p \in asked}) EXCEPT !.all = all]]
      \/ \E started \in SUBSET {p.node : p \in asked} :
             job' = [job EXCEPT ![c] = Job("broken", {}, started)]
  BY <1>0 DEF AskNodes
<1>2. {p.node : p \in asked} \subseteq Nodes
  BY NodesOfParams
<1>3. declared' \subseteq Params /\ UNCHANGED declared /\ UNCHANGED subscriptionVars
  BY DEF IInv, TypeOK
<1>4. CASE job' = [job EXCEPT ![c] = [Job("get", asked, {p.node : p \in asked}) EXCEPT !.all = all]]
  <2> DEFINE new == [Job("get", asked, {p.node : p \in asked}) EXCEPT !.all = all]
  <2>1. new \in Jobs
    BY <1>2, JobSound DEF Holding
  <2>2. /\ new.kind = "get" /\ new.failed = {} /\ new.got = {} /\ new.asked = asked
        /\ new.left = {p.node : p \in asked}
    BY DEF Job
  <2> HIDE DEF new
  <2>3. \A n \in Nodes \ new.left : Of(n, asked) = {} /\ Of(n, new.got) = {}
    BY <2>2 DEF Of
  <2>4. Whole(new)
    BY <2>2, <2>3 DEF Whole, Readable
  <2> QED
    BY <1>3, <1>4, <2>1, <2>2, <2>4, NobodyHolds, JobStep DEF new, Holding
<1>5. ASSUME NEW started \in SUBSET {p.node : p \in asked},
             job' = [job EXCEPT ![c] = Job("broken", {}, started)]
      PROVE  IInv'
  <2> DEFINE new == Job("broken", {}, started)
  <2>1. new \in Jobs
    BY <1>2, JobSound DEF Holding
  <2>2. /\ new.kind = "broken" /\ new.failed = {} /\ new.got = {} /\ new.asked = {}
    BY DEF Job
  <2> HIDE DEF new
  <2>3. Whole(new)
    BY <2>2 DEF Whole
  <2> QED
    BY <1>3, <1>5, <2>1, <2>2, <2>3, NobodyHolds, JobStep DEF new, Holding
<1> QED
  BY <1>1, <1>4, <1>5

LEMMA GetKeeps ==
    ASSUME IInv, NEW c \in Clients, GetParameters(c) PROVE IInv'
BY StartGetSound, RequestsAreParams DEF GetParameters

LEMMA SetKeeps ==
    ASSUME IInv, NEW c \in Clients, SetParameters(c) PROVE IInv'
<1>1. PICK named \in Requests, echo \in BOOLEAN :
        \/ /\ named \subseteq Allowed
           /\ \E unset \in SUBSET (named \cap Optional) :
                  \/ job' = [job EXCEPT ![c] = [Job("set", named, {p.node : p \in named}) EXCEPT
                                                  !.unset = unset, !.echo = echo]]
                  \/ \E started \in SUBSET {p.node : p \in named} :
                         job' = [job EXCEPT ![c] = [Job("broken", named, started) EXCEPT
                                                         !.unset = unset]]
        \/ job' = [job EXCEPT ![c] = ReadBack(named)]
  BY DEF SetParameters
<1>2. named \subseteq Params
  BY RequestsAreParams
<1>3. {p.node : p \in named} \subseteq Nodes
  BY <1>2, NodesOfParams
<1>4. Unlocked /\ UNCHANGED subscriptionVars /\ UNCHANGED declared /\ declared' \subseteq Params
  BY DEF SetParameters, IInv, TypeOK
<1>5. ASSUME named \subseteq Allowed, NEW unset \in SUBSET (named \cap Optional),
             job' = [job EXCEPT ![c] = [Job("set", named, {p.node : p \in named}) EXCEPT
                                             !.unset = unset, !.echo = echo]]
      PROVE  IInv'
  <2> DEFINE new == [Job("set", named, {p.node : p \in named}) EXCEPT !.unset = unset, !.echo = echo]
  <2>1. new \in Jobs
    BY <1>2, <1>3, JobSound DEF Holding
  <2>2. new.kind = "set" /\ new.failed = {} /\ new.got = {} /\ new.asked = named
    BY DEF Job
  <2> HIDE DEF new
  <2>3. Whole(new)
    BY <1>5, <2>2 DEF Whole
  <2> QED
    BY <1>4, <1>5, <2>1, <2>2, <2>3, NobodyHolds, JobStep DEF new, Holding
<1>6. ASSUME named \subseteq Allowed, NEW unset \in SUBSET (named \cap Optional),
             NEW started \in SUBSET {p.node : p \in named},
             job' = [job EXCEPT ![c] = [Job("broken", named, started) EXCEPT !.unset = unset]]
      PROVE  IInv'
  <2> DEFINE new == [Job("broken", named, started) EXCEPT !.unset = unset]
  <2>1. new \in Jobs
    BY <1>2, <1>3, JobSound DEF Holding
  <2>2. new.kind = "broken" /\ new.failed = {} /\ new.got = {} /\ new.asked = named
    BY DEF Job
  <2> HIDE DEF new
  <2>3. Whole(new)
    BY <1>6, <2>2 DEF Whole
  <2> QED
    BY <1>4, <1>6, <2>1, <2>2, <2>3, NobodyHolds, JobStep DEF new, Holding
<1>7. CASE job' = [job EXCEPT ![c] = ReadBack(named)]
  <2> DEFINE new == ReadBack(named)
  <2>1. new \in Jobs
    BY <1>2, JobSound DEF ReadBack
  <2>2. new.kind = "echo" /\ new.failed = {} /\ new.left = {}
    BY DEF Job, ReadBack
  <2> HIDE DEF new
  <2>3. Whole(new)
    BY <2>2 DEF Whole
  <2> QED
    BY <1>4, <1>7, <2>1, <2>2, <2>3, JobStep DEF new, Holding
<1> QED
  BY <1>1, <1>5, <1>6, <1>7

\* The records that the end of one node's thread leaves.
LEMMA Ended ==
    ASSUME NEW j \in Jobs, NEW n \in Nodes, NEW given \in SUBSET Params
    PROVE  /\ Lose(j, n) \in Jobs
           /\ Lose(j, n).kind = j.kind /\ Lose(j, n).asked = j.asked /\ Lose(j, n).got = j.got
           /\ Lose(j, n).left = j.left \ {n} /\ Lose(j, n).failed = j.failed \cup {n}
           /\ Lose(j, n).moved = j.moved /\ Lose(j, n).all = j.all
           /\ Gain(j, n, given) \in Jobs
           /\ Gain(j, n, given).kind = j.kind /\ Gain(j, n, given).asked = j.asked
           /\ Gain(j, n, given).left = j.left \ {n} /\ Gain(j, n, given).failed = j.failed
           /\ Gain(j, n, given).moved = j.moved /\ Gain(j, n, given).all = j.all
           /\ Gain(j, n, given).got = j.got \cup (IF j.kind = "get" THEN Readable(given) ELSE {})
<1>1. (j.got \cup IF j.kind = "get" THEN Readable(given) ELSE {}) \subseteq Params
  BY DEF Jobs, Readable
<1>2. Lose(j, n) \in Jobs
  BY DEF Jobs, Lose
<1>3. Gain(j, n, given) \in Jobs
  BY <1>1 DEF Jobs, Gain
<1> QED
  BY <1>2, <1>3 DEF Jobs, Lose, Gain

\* Only the holder of the mutex has nodes to ask, and when it carries out a set no
\* get is at work.
LEMMA CarrySound ==
    ASSUME IInv, NEW c \in Clients, NEW n \in job[c].left, Carry(job[c], n)
    PROVE  /\ job[c] \in Jobs /\ n \in Nodes
           /\ job[c].kind \in Holding
           /\ \A d \in Clients : d # c => job[d].kind \notin Holding
           /\ declared' \subseteq Params
           /\ UNCHANGED declared \/ job[c].kind # "get"
<1>1. job[c] \in Jobs /\ n \in Nodes
  BY DEF IInv, TypeOK, Jobs
<1>2. job[c].kind \in Holding
  BY DEF IInv, Asking
<1>3. \A d \in Clients : d # c => job[d].kind \notin Holding
  BY <1>2 DEF IInv, Alone
<1>4. declared' \subseteq Params
  <2>1. declared \subseteq Params
    BY DEF IInv, TypeOK
  <2>2. CASE job[c].kind = "get"
    BY <2>1, <2>2 DEF Carry
  <2>3. CASE job[c].kind # "get"
    <3>1. PICK deleted \in SUBSET Of(n, job[c].unset),
               made \in SUBSET (Of(n, job[c].asked \cap Optional) \ job[c].unset) :
            declared' = (declared \ deleted) \cup made
      BY <2>3 DEF Carry
    <3> QED
      BY <2>1, <3>1, ParamAssumption DEF Of
  <2> QED
    BY <2>2, <2>3
<1> QED
  BY <1>1, <1>2, <1>3, <1>4 DEF Carry

\* What an answer adds is what the node has of what it was asked for; that it had
\* not failed before is where Asking is needed.
LEMMA NodeAnswersKeeps ==
    ASSUME IInv, NEW c \in Clients, NodeAnswers(c) PROVE IInv'
<1>1. PICK n \in job[c].left :
        /\ Carry(job[c], n)
        /\ \E given \in Given(job[c], n) : job' = [job EXCEPT ![c] = Gain(job[c], n, given)]
  BY DEF NodeAnswers
<1> DEFINE old == job[c]
<1>2. PICK given \in Given(old, n) : job' = [job EXCEPT ![c] = Gain(old, n, given)]
  BY <1>1
<1> DEFINE new == Gain(old, n, given)
<1>3. /\ old \in Jobs /\ n \in Nodes /\ old.kind \in Holding
      /\ \A d \in Clients : d # c => job[d].kind \notin Holding
      /\ declared' \subseteq Params
      /\ UNCHANGED declared \/ old.kind # "get"
  BY <1>1, CarrySound
<1>4. \/ given = Of(n, old.asked) \cap declared
      \/ given = {} /\ (n \in old.moved \/ (~ old.all /\ ~ Of(n, old.asked) \subseteq declared))
  BY DEF Given
<1>5. given \in SUBSET Params /\ given \subseteq Of(n, old.asked)
  BY <1>3, <1>4 DEF Jobs, Of
<1>6. n \in old.left /\ n \notin old.failed
  BY <1>1 DEF IInv, Asking
<1>7. Whole(old)
  BY DEF IInv, AnswersWhole
<1>8. /\ new \in Jobs
      /\ new.kind = old.kind /\ new.asked = old.asked
      /\ new.left = old.left \ {n} /\ new.failed = old.failed
      /\ new.moved = old.moved /\ new.all = old.all
      /\ new.got = old.got \cup (IF old.kind = "get" THEN Readable(given) ELSE {})
  BY <1>3, <1>5, Ended
<1> HIDE DEF old, new
<1>9. Whole(new)
  <2>1. CASE old.kind = "get"
    <3>1. old.got \subseteq {p \in Readable(old.asked) : p.node \notin old.left \cup old.failed}
      BY <1>7, <2>1 DEF Whole
    <3>2. \A p \in given : p \in old.asked /\ p.node = n
      BY <1>5 DEF Of
    <3>3. new.got \subseteq {p \in Readable(new.asked) : p.node \notin new.left \cup new.failed}
      BY <1>6, <1>8, <2>1, <3>1, <3>2 DEF Readable
    <3>4. Of(n, new.got) = Readable(given)
      BY <1>6, <1>8, <2>1, <3>1, <3>2 DEF Of, Readable
    <3>5. \A m \in Nodes : m # n => Of(m, new.got) = Of(m, old.got)
      BY <1>8, <2>1, <3>2 DEF Of, Readable
    <3>6. ASSUME NEW m \in Nodes \ (new.left \cup new.failed \cup new.moved)
          PROVE  \/ Of(m, new.got) = Readable(Of(m, new.asked) \cap declared)
                 \/ Of(m, new.got) = {} /\ ~ new.all /\ ~ Of(m, new.asked) \subseteq declared
      <4>1. CASE m = n
        <5>1. n \notin old.moved
          BY <1>8, <4>1
        <5>2. CASE given = Of(n, old.asked) \cap declared
          BY <1>8, <3>4, <4>1, <5>2
        <5>3. CASE given = {} /\ ~ old.all /\ ~ Of(n, old.asked) \subseteq declared
          BY <1>8, <3>4, <4>1, <5>3 DEF Readable
        <5> QED
          BY <1>4, <5>1, <5>2, <5>3
      <4>2. CASE m # n
        <5>1. m \in Nodes \ (old.left \cup old.failed \cup old.moved)
          BY <1>8, <4>2
        <5>2. \/ Of(m, old.got) = Readable(Of(m, old.asked) \cap declared)
              \/ Of(m, old.got) = {} /\ ~ old.all /\ ~ Of(m, old.asked) \subseteq declared
          BY <1>7, <2>1, <5>1 DEF Whole
        <5> QED
          BY <1>8, <3>5, <4>2, <5>2
      <4> QED
        BY <4>1, <4>2
    <3> QED
      BY <1>8, <2>1, <3>3, <3>6 DEF Whole
  <2>2. CASE old.kind # "get"
    BY <1>7, <1>8, <2>2 DEF Whole
  <2> QED
    BY <2>1, <2>2
<1>10. new.left \cap new.failed = {}
  <2>1. old.left \cap old.failed = {}
    BY DEF old, IInv, Asking
  <2> QED
    BY <1>8, <2>1
<1>11. UNCHANGED subscriptionVars
  BY DEF NodeAnswers
<1>12. job' = [job EXCEPT ![c] = new]
  BY <1>2 DEF new
<1>13. \A d \in Clients : d # c => job[d].kind # "get"
  BY <1>3 DEF Holding
<1> QED
  BY <1>3, <1>8, <1>9, <1>10, <1>11, <1>12, <1>13, JobStep

LEMMA NodeFailsKeeps ==
    ASSUME IInv, NEW c \in Clients, NodeFails(c) PROVE IInv'
<1>1. PICK n \in job[c].left : Carry(job[c], n) /\ job' = [job EXCEPT ![c] = Lose(job[c], n)]
  BY DEF NodeFails
<1> DEFINE old == job[c]
           new == Lose(old, n)
<1>2. /\ old \in Jobs /\ n \in Nodes /\ old.kind \in Holding
      /\ \A d \in Clients : d # c => job[d].kind \notin Holding
      /\ declared' \subseteq Params
      /\ UNCHANGED declared \/ old.kind # "get"
  BY <1>1, CarrySound
<1>3. /\ new \in Jobs
      /\ new.kind = old.kind /\ new.asked = old.asked /\ new.got = old.got
      /\ new.left = old.left \ {n} /\ new.failed = old.failed \cup {n}
      /\ new.moved = old.moved /\ new.all = old.all
  <2>1. /\ Lose(old, n) \in Jobs
        /\ Lose(old, n).kind = old.kind /\ Lose(old, n).asked = old.asked
        /\ Lose(old, n).got = old.got /\ Lose(old, n).left = old.left \ {n}
        /\ Lose(old, n).failed = old.failed \cup {n}
        /\ Lose(old, n).moved = old.moved /\ Lose(old, n).all = old.all
    <3> HIDE DEF old
    <3> QED
      BY <1>2, Ended
  <2> QED
    BY <2>1
<1>4. n \in old.left /\ Whole(old) /\ old.left \cap old.failed = {}
  BY <1>1 DEF IInv, AnswersWhole, Asking
<1>5. UNCHANGED subscriptionVars
  BY DEF NodeFails
<1>6. job' = [job EXCEPT ![c] = new]
  BY <1>1
<1> HIDE DEF old, new
<1>7. new.left \cup new.failed = old.left \cup old.failed
  BY <1>3, <1>4
<1>8. Whole(new)
  BY <1>3, <1>4, <1>7 DEF Whole
<1>9. new.left \cap new.failed = {}
  BY <1>3, <1>4
<1>10. \A d \in Clients : d # c => job[d].kind # "get"
  BY <1>2 DEF Holding
<1> QED
  BY <1>2, <1>3, <1>5, <1>6, <1>8, <1>9, <1>10, JobStep

\* A change by others concerns the gets that ask for the parameter, and of these
\* the node it belongs to; what a get has of other nodes does not move.
LEMMA NodeChangesKeeps ==
    ASSUME IInv, NodeChanges PROVE IInv'
<1>1. PICK p \in Optional :
        /\ declared' = IF p \in declared THEN declared \ {p} ELSE declared \cup {p}
        /\ job' = [c \in Clients |->
                       IF job[c].kind = "get" /\ p \in job[c].asked
                       THEN [job[c] EXCEPT !.moved = @ \cup {p.node}]
                       ELSE job[c]]
  BY DEF NodeChanges
<1>2. UNCHANGED subscriptionVars
  BY DEF NodeChanges
<1>3. p \in Params /\ p.node \in Nodes
  BY ParamAssumption DEF Nodes
<1>4. declared' \subseteq Params
  BY <1>1, <1>3 DEF IInv, TypeOK
<1>5. \A q : q # p => (q \in declared' <=> q \in declared)
  BY <1>1
<1>6. ASSUME NEW c \in Clients
      PROVE  /\ job'[c] \in Jobs /\ Whole(job[c])'
             /\ job'[c].kind = job[c].kind /\ job'[c].left = job[c].left
             /\ job'[c].failed = job[c].failed
  <2> DEFINE old == job[c]
             new == job'[c]
  <2>1. old \in Jobs /\ Whole(old)
    BY DEF IInv, TypeOK, AnswersWhole
  <2>2. CASE old.kind = "get" /\ p \in old.asked
    <3>1. new = [old EXCEPT !.moved = @ \cup {p.node}]
      BY <1>1, <2>2
    <3>2. /\ new \in Jobs
          /\ new.kind = old.kind /\ new.asked = old.asked /\ new.got = old.got /\ new.all = old.all
          /\ new.left = old.left /\ new.failed = old.failed /\ new.moved = old.moved \cup {p.node}
      BY <1>3, <2>1, <3>1 DEF Jobs
    <3> HIDE DEF old, new
    <3>3. ASSUME NEW m \in Nodes, m # p.node
          PROVE  /\ Of(m, old.asked) \cap declared' = Of(m, old.asked) \cap declared
                 /\ Of(m, old.asked) \subseteq declared' <=> Of(m, old.asked) \subseteq declared
      <4>1. \A q \in Of(m, old.asked) : q # p
        BY <3>3 DEF Of
      <4> QED
        BY <1>5, <4>1
    <3>4. ASSUME NEW m \in Nodes \ (new.left \cup new.failed \cup new.moved)
          PROVE  \/ Of(m, new.got) = Readable(Of(m, new.asked) \cap declared')
                 \/ Of(m, new.got) = {} /\ ~ new.all /\ ~ Of(m, new.asked) \subseteq declared'
      <4>1. m \in Nodes \ (old.left \cup old.failed \cup old.moved) /\ m # p.node
        BY <3>2
      <4>2. \/ Of(m, old.got) = Readable(Of(m, old.asked) \cap declared)
            \/ Of(m, old.got) = {} /\ ~ old.all /\ ~ Of(m, old.asked) \subseteq declared
        BY <2>1, <2>2, <4>1 DEF Whole
      <4> QED
        BY <3>2, <3>3, <4>1, <4>2
    <3>5. new.got \subseteq {q \in Readable(new.asked) : q.node \notin new.left \cup new.failed}
      BY <2>1, <2>2, <3>2 DEF Whole
    <3>6. Whole(job[c])'
      BY <2>2, <3>2, <3>4, <3>5 DEF Whole, new
    <3> QED
      BY <3>2, <3>6 DEF old, new
  <2>3. CASE old.kind = "get" /\ p \notin old.asked
    <3>1. new = old
      BY <1>1, <2>3
    <3> HIDE DEF old, new
    <3>2. ASSUME NEW m \in Nodes
          PROVE  /\ Of(m, old.asked) \cap declared' = Of(m, old.asked) \cap declared
                 /\ Of(m, old.asked) \subseteq declared' <=> Of(m, old.asked) \subseteq declared
      <4>1. \A q \in Of(m, old.asked) : q # p
        BY <2>3 DEF Of
      <4> QED
        BY <1>5, <4>1
    <3>3. Whole(job[c])'
      BY <2>1, <2>3, <3>1, <3>2 DEF Whole, new
    <3> QED
      BY <2>1, <3>1, <3>3 DEF old, new
  <2>4. CASE old.kind # "get"
    <3>1. new = old
      BY <1>1, <2>4
    <3> HIDE DEF old, new
    <3>2. Whole(job[c])'
      BY <2>1, <2>4, <3>1 DEF Whole, new
    <3> QED
      BY <2>1, <3>1, <3>2 DEF old, new
  <2> QED
    BY <2>2, <2>3, <2>4
<1>7. TypeOK'
  <2>1. job' \in [Clients -> Jobs]
    BY <1>1, <1>6
  <2> QED
    BY <1>2, <1>4, <2>1 DEF IInv, TypeOK, subscriptionVars
<1>8. NodesServed'
  BY <1>2 DEF IInv, NodesServed, subscriptionVars
<1>9. AnswersWhole'
  BY <1>6 DEF AnswersWhole
<1>10. Asking' /\ Alone'
  BY <1>6 DEF IInv, Asking, Alone
<1> QED
  BY <1>7, <1>8, <1>9, <1>10 DEF IInv

LEMMA FinishKeeps ==
    ASSUME IInv, NEW c \in Clients, Finish(c) PROVE IInv'
<1> DEFINE new == IF job[c].echo THEN ReadBack(job[c].asked) ELSE NoJob
<1>1. job' = [job EXCEPT ![c] = new]
  BY DEF Finish
<1>2. job[c].asked \in SUBSET Params
  BY DEF IInv, TypeOK, Jobs
<1>3. /\ ReadBack(job[c].asked) \in Jobs /\ ReadBack(job[c].asked).kind = "echo"
      /\ ReadBack(job[c].asked).left = {} /\ ReadBack(job[c].asked).failed = {}
  <2>1. ReadBack(job[c].asked) \in Jobs
    BY <1>2, JobSound DEF ReadBack
  <2> QED
    BY <2>1 DEF ReadBack, Job
<1>4. new \in Jobs /\ new.kind \in {"none", "echo"} /\ new.left = {} /\ new.failed = {}
  BY <1>3, NoJobSound
<1>5. UNCHANGED subscriptionVars /\ UNCHANGED declared /\ declared' \subseteq Params
  BY DEF Finish, IInv, TypeOK
<1> HIDE DEF new
<1>6. Whole(new)
  BY <1>4 DEF Whole
<1> QED
  BY <1>1, <1>4, <1>5, <1>6, JobStep DEF Holding

LEMMA EchoKeeps ==
    ASSUME IInv, NEW c \in Clients, Echo(c) PROVE IInv'
<1>1. job[c].asked \in SUBSET Params
  BY DEF IInv, TypeOK, Jobs
<1> QED
  BY <1>1, StartGetSound DEF Echo
-----------------------------------------------------------------------------
(* Subscriptions. *)

\* What leaves the jobs alone keeps the invariant if it keeps the rest of it.
LEMMA OtherStep ==
    ASSUME IInv, UNCHANGED <<job, declared>>, NodesServed',
           /\ DOMAIN wanted' \subseteq Nodes
           /\ \A n \in DOMAIN wanted' : wanted'[n] \subseteq Of(n, Allowed)
           /\ listening' \subseteq Nodes
           /\ event' \in Events
           /\ crashed' \in BOOLEAN
           /\ halfDone' \subseteq Nodes
           /\ revived' \subseteq Nodes
    PROVE  IInv'
<1>1. TypeOK'
  BY DEF IInv, TypeOK
<1>2. AnswersWhole'
  BY DEF IInv, AnswersWhole, Whole
<1>3. Asking' /\ Alone'
  BY DEF IInv, Asking, Alone
<1> QED
  BY <1>1, <1>2, <1>3 DEF IInv

\* The entries that a list of names makes or extends.
LEMMA EnterSound ==
    ASSUME IInv, NEW P, P \subseteq Params \cap Allowed
    PROVE  /\ DOMAIN Enter(P) = DOMAIN wanted \cup NewNodes(P)
           /\ DOMAIN Enter(P) \subseteq Nodes
           /\ \A n \in DOMAIN Enter(P) : Enter(P)[n] \subseteq Of(n, Allowed)
           /\ NewNodes(P) \subseteq Nodes
           /\ NewNodes(P) \cap DOMAIN wanted = {}
<1>1. {p.node : p \in P} \subseteq Nodes
  BY NodesOfParams
<1>2. \A n : Of(n, P) \subseteq Of(n, Allowed)
  BY DEF Of
<1>3. DOMAIN wanted \subseteq Nodes /\ \A n \in DOMAIN wanted : wanted[n] \subseteq Of(n, Allowed)
  BY DEF IInv, TypeOK
<1>4. DOMAIN Enter(P) = DOMAIN wanted \cup {p.node : p \in P}
  BY DEF Enter
<1>5. \A n \in DOMAIN Enter(P) :
        Enter(P)[n] = Of(n, P) \cup (IF n \in DOMAIN wanted THEN wanted[n] ELSE {})
  BY DEF Enter
<1> QED
  BY <1>1, <1>2, <1>3, <1>4, <1>5 DEF NewNodes

LEMMA SubscribeKeeps ==
    ASSUME IInv, NEW c \in Clients, SubscribeParams(c) PROVE IInv'
<1>1. PICK names \in Names :
        /\ wanted' = Enter(Accepted(names))
        /\ \/ \E subscribed \in SUBSET NewNodes(Accepted(names)) :
                 /\ listening' = listening \cup subscribed
                 /\ halfDone' = halfDone \cup (NewNodes(Accepted(names)) \ subscribed)
           \/ /\ halfDone' = halfDone \cup NewNodes(Accepted(names))
              /\ UNCHANGED listening
  BY DEF SubscribeParams
<1> DEFINE P == Accepted(names)
<1>2. P \subseteq Params \cap Allowed
  BY RequestsAreParams
<1>3. /\ DOMAIN wanted' = DOMAIN wanted \cup NewNodes(P)
      /\ DOMAIN wanted' \subseteq Nodes
      /\ \A n \in DOMAIN wanted' : wanted'[n] \subseteq Of(n, Allowed)
      /\ NewNodes(P) \subseteq Nodes
      /\ NewNodes(P) \cap DOMAIN wanted = {}
  BY <1>1, <1>2, EnterSound
<1>4. UNCHANGED <<job, event, crashed, declared, revived>>
  BY DEF SubscribeParams
<1>5. NodesServed'
  BY <1>1, <1>3, <1>4 DEF IInv, NodesServed
<1>6. /\ listening' \subseteq Nodes /\ halfDone' \subseteq Nodes /\ revived' \subseteq Nodes
      /\ event' \in Events /\ crashed' \in BOOLEAN
  BY <1>1, <1>3, <1>4 DEF IInv, TypeOK
<1> QED
  BY <1>3, <1>4, <1>5, <1>6, OtherStep

\* The entry that is erased is that of a node that is listened to: it is neither
\* half done nor revived.
LEMMA UnsubscribeKeeps ==
    ASSUME IInv, NEW c \in Clients, UnsubscribeParams(c) PROVE IInv'
<1>1. PICK p \in Params : UnsubscribeParam(p) /\ UNCHANGED <<job, declared>>
  BY DEF UnsubscribeParams
<1> DEFINE n == p.node
           left == wanted[n] \ {p}
<1>2. n \in DOMAIN wanted
  BY <1>1 DEF UnsubscribeParam
<1>3. CASE Crash
  BY <1>1, <1>3, OtherStep DEF Crash, IInv, TypeOK, NodesServed
<1>4. CASE /\ wanted' = [wanted EXCEPT ![n] = left]
           /\ UNCHANGED <<listening, event, crashed, halfDone, revived>>
  <2>1. DOMAIN wanted' = DOMAIN wanted /\ \A k \in DOMAIN wanted : wanted'[k] \subseteq wanted[k]
    BY <1>4
  <2> QED
    BY <1>1, <1>4, <2>1, OtherStep DEF IInv, TypeOK, NodesServed
<1>5. CASE /\ n \in listening
           /\ wanted' = Erase(wanted, {n})
           /\ Unlisten(n)
           /\ event' = [event EXCEPT !.entry = @ /\ event.node # n]
           /\ UNCHANGED <<crashed, halfDone, revived>>
  <2>1. DOMAIN wanted' = DOMAIN wanted \ {n} /\ \A k \in DOMAIN wanted' : wanted'[k] = wanted[k]
    BY <1>5 DEF Erase
  <2>2. listening' = listening \ {n}
    BY <1>5 DEF Unlisten
  <2>3. NodesServed'
    BY <1>5, <2>1, <2>2 DEF IInv, NodesServed
  <2>4. event \in Events
    BY DEF IInv, TypeOK
  <2>5. event' \in Events
    <3>1. CASE event = NoEvent
      BY <1>5, <3>1 DEF Events, NoEvent
    <3>2. CASE event # NoEvent
      BY <1>5, <2>4, <3>2 DEF Events
    <3> QED
      BY <3>1, <3>2
  <2> QED
    BY <1>1, <1>5, <2>1, <2>2, <2>3, <2>5, OtherStep DEF IInv, TypeOK
<1> QED
  BY <1>1, <1>3, <1>4, <1>5 DEF UnsubscribeParam

LEMMA EventKeeps ==
    ASSUME IInv, ParameterEvent \/ LookUp \/ Update PROVE IInv'
<1>1. CASE ParameterEvent
  <2>1. event' \in Events
    BY <1>1 DEF ParameterEvent, Events, IInv, TypeOK
  <2> QED
    BY <1>1, <2>1, OtherStep DEF ParameterEvent, IInv, TypeOK, NodesServed
<1>2. CASE LookUp
  <2>1. event \in Events /\ event.step = "lookup"
    BY <1>2 DEF LookUp, IInv, TypeOK
  <2>2. event.node \in Nodes
    BY <2>1 DEF Events, NoEvent
  <2>3. event' \in Events
    BY <1>2, <2>1, <2>2 DEF LookUp, Events, NoEvent
  <2>4. CASE event.node \in DOMAIN wanted
    BY <1>2, <2>3, <2>4, OtherStep DEF LookUp, IInv, TypeOK, NodesServed
  <2>5. CASE event.node \notin DOMAIN wanted
    <3>1. /\ DOMAIN wanted' = DOMAIN wanted \cup {event.node}
          /\ wanted'[event.node] = {}
          /\ \A n \in DOMAIN wanted : wanted'[n] = wanted[n]
      BY <1>2, <2>5 DEF LookUp, Emplace
    <3>2. revived' = revived \cup {event.node} /\ UNCHANGED <<listening, job, crashed, declared, halfDone>>
      BY <1>2, <2>5 DEF LookUp
    <3>3. NodesServed'
      BY <2>5, <3>1, <3>2 DEF IInv, NodesServed
    <3> QED
      BY <2>2, <2>3, <3>1, <3>2, <3>3, OtherStep DEF IInv, TypeOK
  <2> QED
    BY <2>4, <2>5
<1>3. CASE Update
  <2>1. NoEvent \in Events /\ event \in Events
    BY DEF Events, IInv, TypeOK
  <2>2. event' \in Events
    BY <1>3, <2>1 DEF Update, Crash
  <2> QED
    BY <1>3, <2>2, OtherStep DEF Update, Crash, IInv, TypeOK, NodesServed
<1> QED
  BY <1>1, <1>2, <1>3

LEMMA NextKeeps == IInv /\ [Next]_paramVars => IInv'
<1> SUFFICES ASSUME IInv, [Next]_paramVars PROVE IInv'
  OBVIOUS
<1>1. CASE UNCHANGED paramVars
  BY <1>1, OtherStep DEF paramVars, IInv, TypeOK, NodesServed
<1>2. ASSUME NEW c \in Clients,
             GetParameters(c) \/ SetParameters(c) \/ NodeAnswers(c) \/ NodeFails(c)
                \/ Finish(c) \/ Echo(c) \/ SubscribeParams(c) \/ UnsubscribeParams(c)
      PROVE  IInv'
  BY <1>2, GetKeeps, SetKeeps, NodeAnswersKeeps, NodeFailsKeeps, FinishKeeps, EchoKeeps,
     SubscribeKeeps, UnsubscribeKeeps
<1>3. CASE ParameterEvent \/ LookUp \/ Update
  BY <1>3, EventKeeps
<1>4. CASE NodeChanges
  BY <1>4, NodeChangesKeeps
<1> QED
  BY <1>1, <1>2, <1>3, <1>4 DEF Next

\* The inductive invariant holds throughout.
THEOREM Invariance == Spec => []IInv
<1>1. Init => IInv
  BY InitInvariant
<1>2. IInv /\ [Next]_paramVars => IInv'
  BY NextKeeps
<1> QED
  BY <1>1, <1>2, PTL DEF Spec

\* What is subscribed is a parameter of its node and on the whitelist, whatever
\* lists of names clients send (parameter_interface.cpp:268-336).
THEOREM TypeCorrect == Spec => []TypeOK
<1>1. IInv => TypeOK
  BY DEF IInv
<1> QED
  BY <1>1, Invariance, PTL

\* The three ways named in NodesServed are the only ones to an entry without a
\* subscription, wherever in a list of any length an exception is thrown, and no
\* subscription is left without an entry (parameter_interface.cpp:274, 288-299, 305).
THEOREM SubscriptionsServed == Spec => []NodesServed
<1>1. IInv => NodesServed
  BY DEF IInv
<1> QED
  BY <1>1, Invariance, PTL

\* A get that no exception outside the nodes' threads has ended reports of every
\* node that answers what it has at one moment, whatever other nodes fail and
\* other clients set or delete, for any number of nodes and clients
\* (parameter_interface.cpp:203-226, 233-256, 388-403).
THEOREM AnswersComplete == Spec => []AnswersWhole
<1>1. IInv => AnswersWhole
  BY DEF IInv
<1> QED
  BY <1>1, Invariance, PTL
=============================================================================
