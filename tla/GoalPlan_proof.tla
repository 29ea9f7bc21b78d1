----------------------------- MODULE GoalPlan_proof -----------------------------
(***************************************************************************)
(* Theorems about GoalPlan, on its assumptions: for any tickers, lead      *)
(* calls, outputs, coordinators, proposals, grants, keys and files.        *)
(*                                                                         *)
(* The three parts do not step together, so each has an invariant of its   *)
(* own: what the coordinator lock protects (PlanInv), what a first claim   *)
(* finds (RevInv), what a post and a goal say of the file the client       *)
(* hashed (RequestInv).                                                    *)
(***************************************************************************)
EXTENDS GoalPlan, TLAPS, FiniteSetTheorems, WellFoundedInduction

----------------------------------------------------------------------------
(* The revisions.                                                          *)

\* Before the first claim there is no plan; afterwards there is an owner.
RevInv ==
  /\ ownership.version \in Nat
  /\ ~Owned => plan = EmptyPlan
  /\ proposals = [p \in Proposal |-> proposals[p]]

LEMMA RevInit_Inv == RevInit => RevInv
  BY DEF RevInit, RevInv, Owned

LEMMA RevStep ==
  ASSUME RevInv, NEW first, RevNext(first)
  PROVE  RevInv'
<1>1. ASSUME NEW c \in Coord, NEW given, NEW a, ClaimOwnership(c, first, given, a)
      PROVE  RevInv'
  <2>1. ownership'.version = 1 /\ proposals' = proposals BY <1>1 DEF ClaimOwnership
  <2> QED BY <2>1 DEF RevInv, Owned
<1>2. ASSUME NEW src, NEW dst, HandOver(src, dst) PROVE RevInv'
  <2>1. ownership'.version = ownership.version + 1 BY <1>2 DEF HandOver
  <2> QED BY <1>2, <2>1 DEF RevInv, Owned, HandOver
<1>3. ASSUME NEW a, SetAutonomy(a) PROVE RevInv' BY <1>3 DEF RevInv, Owned, SetAutonomy
<1>4. ASSUME NEW g, ApplyGrant(g) PROVE RevInv' BY <1>4 DEF RevInv, Owned, ApplyGrant
<1>5. ASSUME NEW p \in Proposal, NEW c, NEW v, NEW new, Propose(p, c, v, new) PROVE RevInv'
  <2>1. ownership' = ownership /\ plan' = plan BY <1>5 DEF Propose
  <2>2. proposals' = [q \in Proposal |-> proposals'[q]] BY <1>5 DEF Propose, RevInv
  <2> QED BY <2>1, <2>2 DEF RevInv, Owned
<1>6. ASSUME NEW p \in Proposal, NEW c, NEW v, Commit(p, c, v) PROVE RevInv'
  <2>1. ownership' = ownership /\ Owned BY <1>6 DEF Commit, MayCommit, IsSubmitter
  <2>2. proposals' = [q \in Proposal |-> proposals'[q]] BY <1>6 DEF Commit, RevInv
  <2> QED BY <2>1, <2>2 DEF RevInv, Owned
<1>7. ASSUME NEW p \in Proposal, NEW c, NEW v, CommitRefused(p, c, v) PROVE RevInv'
  <2>1. ownership' = ownership /\ plan' = plan BY <1>7 DEF CommitRefused
  <2>2. proposals' = [q \in Proposal |-> proposals'[q]] BY <1>7 DEF CommitRefused, RevInv
  <2> QED BY <2>1, <2>2 DEF RevInv, Owned
<1> QED BY <1>1, <1>2, <1>3, <1>4, <1>5, <1>6, <1>7 DEF RevNext

LEMMA RevInvariant == GoalSpec => []RevInv
<1>1. GoalInit => RevInv BY RevInit_Inv DEF GoalInit
<1>2. RevInv /\ [GoalNext]_gvars => RevInv'
  <2> SUFFICES ASSUME RevInv, [GoalNext]_gvars PROVE RevInv' OBVIOUS
  <2>1. CASE UNCHANGED rvars BY <2>1 DEF rvars, RevInv, Owned
  <2>2. CASE RevNext(FirstPlan) BY <2>2, RevStep
  <2> QED BY <2>1, <2>2 DEF GoalNext, gvars
<1> QED BY <1>1, <1>2, PTL DEF GoalSpec

\* commit_plan_revision: whatever handoffs, grants and other commits came between, what is
\* committed was proposed by the coordinator of now and stays inside the contract of now.
THEOREM CommitsAreCurrent == GoalSpec => CommitIsCurrent
<1> DEFINE Current ==
      revision' # revision /\ Owned =>
        \E p \in Proposal :
          /\ proposals[p].status = "proposed" /\ proposals'[p].status = "committed"
          /\ plan' = proposals[p].plan
          /\ ownership = [who |-> proposals[p].who, version |-> proposals[p].version]
          /\ \A item \in AllowRanges(plan') :
               contract # Unlimited => AllowItemCovered(item, contract.allow)
<1>1. ASSUME RevInv, [GoalNext]_gvars PROVE [Current]_rvars
  <2>1. SUFFICES ASSUME revision' # revision, Owned PROVE Current BY DEF rvars
  <2>2. RevNext(FirstPlan) BY <1>1, <2>1 DEF GoalNext, gvars, rvars
  <2>3. PICK p \in Proposal, c \in Coord, v \in 1..MaxVersion : Commit(p, c, v)
    BY <2>1, <2>2 DEF RevNext, ClaimOwnership, HandOver, SetAutonomy, ApplyGrant, Propose, CommitRefused
  <2>4. Closed("committed").status = "committed" BY DEF Closed, NoProposal
  <2>5. proposals[p].status = "proposed" /\ proposals'[p] = Closed("committed")
        /\ plan' = proposals[p].plan
    BY <1>1, <2>3 DEF Commit, RevInv
  <2>6. /\ ownership = [who |-> proposals[p].who, version |-> proposals[p].version]
        /\ Legal(proposals[p].plan)
    BY <2>3 DEF Commit, MayCommit, IsSubmitter
  <2>7. contract # Unlimited => \A item \in AllowRanges(plan') : AllowItemCovered(item, contract.allow)
    BY <2>5, <2>6 DEF Legal, CeilingKept, RangesKept, Ceiling
  <2> QED BY <2>4, <2>5, <2>6, <2>7
<1> QED BY <1>1, RevInvariant, PTL DEF GoalSpec, CommitIsCurrent

\* validate_plan_revision: a revision that was written before a task was started does not
\* take the task away when it is committed.
THEOREM ActiveTasksAreKept == GoalSpec => ActiveTaskIsKept
<1> DEFINE Kept == \A t \in Tasks(plan) : plan.tasks[t].status \in ActiveTask => t \in Tasks(plan')
<1>1. ASSUME RevInv, [GoalNext]_gvars PROVE [Kept]_rvars
  <2>1. SUFFICES ASSUME plan' # plan PROVE Kept BY DEF rvars
  <2>2. RevNext(FirstPlan) BY <1>1, <2>1 DEF GoalNext, gvars, rvars
  <2>3. CASE \E c \in Coord, given \in GivenContract, a \in Autonomy \cup {autonomy} :
               ClaimOwnership(c, FirstPlan, given, a)
    <3>1. plan = EmptyPlan BY <1>1, <2>3 DEF ClaimOwnership, RevInv
    <3>2. Tasks(plan) = {} BY <3>1 DEF Tasks, EmptyPlan
    <3> QED BY <3>2
  <2>4. CASE \E p \in Proposal, c \in Coord, v \in 1..MaxVersion : Commit(p, c, v)
    <3>1. PICK p \in Proposal, c \in Coord, v \in 1..MaxVersion : Commit(p, c, v) BY <2>4
    <3>2. plan' = proposals[p].plan /\ LifecycleKept(plan, proposals[p].plan)
      BY <3>1 DEF Commit, MayCommit, Legal
    <3> QED BY <3>2 DEF LifecycleKept, Tasks
  <2> QED BY <2>1, <2>2, <2>3, <2>4
          DEF RevNext, HandOver, SetAutonomy, ApplyGrant, Propose, CommitRefused
<1> QED BY <1>1, RevInvariant, PTL DEF GoalSpec, ActiveTaskIsKept

----------------------------------------------------------------------------
(* The requests.                                                           *)

Body == [kind : Kind \cup {"none"}, place : Nat, size : Nat, sha : Content \cup {NoFile}]
Post == [n : Nat, key : Key \cup {NoKey}, body : Body]
Client == [pc : {"idle", "selected", "posted", "polling", "over"}, key : Key \cup {NoKey},
           body : Body, told : Nat]
Opened == [key : Key \cup {NoKey}, body : Body,
           task : {"queued", "handed", "staged", "running", "failed", "succeeded"},
           inputs : Content \cup {NoFile}, handed : {"none", "same", "changed"},
           lead : -1..LeadTries, human : BOOLEAN]

ReqTypes ==
  /\ file \in Content \cup {NoFile} /\ snapshots \in Seq(Content \cup {NoFile})
  /\ client \in Client /\ posts \in SUBSET Post /\ goals \in Seq(Opened) /\ opens \in Nat
  /\ client.body.place \in 0..Len(snapshots)

\* A post of now is the client's; an older one is answered to nobody.
PostsInv ==
  /\ \A post \in posts : post.n <= opens
  /\ client.pc = "selected" => \A post \in posts : post.n # opens
  /\ client.pc = "posted" => \A post \in posts : post.n = opens =>
                               post.key = client.key /\ post.body = client.body
ToldInv ==
  /\ client.told \in 0..Len(goals)
  /\ client.pc \in {"polling", "over"} <=> client.told # NoGoal
  /\ client.told # NoGoal => goals[client.told].key = client.key /\ goals[client.told].body = client.body
KeysInv == \A i, j \in DOMAIN goals : goals[i].key = goals[j].key /\ goals[i].key # NoKey => i = j

\* What was looked at before the start.
Looked(g) ==
  /\ g.task \in {"handed", "staged"} => g.handed = "same"
  /\ g.task = "staged" /\ g.body.kind = "manifest" => g.inputs = g.body.sha
LookedInv == \A i \in DOMAIN goals : Looked(goals[i])

RequestInv == ReqTypes /\ PostsInv /\ ToldInv /\ KeysInv /\ LookedInv

LEMMA RequestInit_Inv == RequestInit => RequestInv
<1> SUFFICES ASSUME RequestInit PROVE RequestInv OBVIOUS
<1>1. NoBody \in Body BY DEF NoBody, Body
<1>2. Idle \in Client /\ Idle.pc = "idle" /\ Idle.told = 0 /\ Idle.body.place = 0
  BY <1>1 DEF Idle, Client, NoGoal, NoBody
<1>3. /\ file \in Content \cup {NoFile} /\ snapshots = << >> /\ client = Idle
      /\ posts = {} /\ goals = << >> /\ opens = 0
  BY RequestAssumption DEF RequestInit
<1> QED BY <1>2, <1>3 DEF RequestInv, ReqTypes, PostsInv, ToldInv, KeysInv, LookedInv, NoGoal

\* A step of the client alone.
LEMMA ClientStep ==
  ASSUME RequestInv,
         \/ \E key \in Key \cup {NoKey}, kind \in Kind : SelectInput(key, kind)
         \/ HashAndPost \/ InputGone \/ GiveUp
         \/ StartWait \/ Poll \/ StopWaiting
  PROVE  RequestInv'
<1> USE DEF RequestInv
<1>1. NoBody \in Body /\ NoBody.place = 0 BY DEF NoBody, Body
<1>2. Idle \in Client /\ Idle.pc = "idle" /\ Idle.told = 0 /\ Idle.body = NoBody /\ Idle.key = NoKey
  BY <1>1 DEF Idle, Client, NoGoal
<1>3. client \in Client /\ client.body \in Body /\ Len(snapshots) \in Nat /\ Len(goals) \in Nat
  BY DEF ReqTypes, Client
<1>4. ASSUME goals' = goals, snapshots' = snapshots, file' = file, opens' = opens,
             client' = Idle, posts' \subseteq posts
      PROVE  RequestInv'
  BY <1>1, <1>2, <1>3, <1>4
     DEF ReqTypes, PostsInv, ToldInv, KeysInv, LookedInv, NoGoal
<1>5. CASE InputGone BY <1>4, <1>5 DEF InputGone
<1>6. CASE GiveUp
  <2>1. posts' \subseteq posts BY <1>6 DEF GiveUp
  <2> QED BY <1>4, <1>6, <2>1 DEF GiveUp
<1>7. ASSUME NEW pc \in {"polling", "over"}, client' = [client EXCEPT !.pc = pc],
             client.pc \in {"polling", "over"},
             UNCHANGED <<file, snapshots, posts, goals, opens>>
      PROVE  RequestInv'
  <2>1. client' \in Client /\ client'.pc = pc /\ client'.told = client.told
        /\ client'.key = client.key /\ client'.body = client.body
    BY <1>3, <1>7 DEF Client
  <2> QED BY <1>7, <2>1 DEF ReqTypes, PostsInv, ToldInv, KeysInv, LookedInv
<1>8. CASE StartWait \/ Poll \/ StopWaiting BY <1>7, <1>8 DEF StartWait, Poll, StopWaiting
<1>9. ASSUME NEW key \in Key \cup {NoKey}, NEW kind \in Kind, SelectInput(key, kind)
      PROVE  RequestInv'
  <2> DEFINE body == [NoBody EXCEPT !.kind = kind,
                        !.place = IF kind = "snapshot" THEN Len(snapshots') ELSE 0,
                        !.size = IF kind = "manifest" THEN Size[file] ELSE 0]
  <2>1. /\ snapshots' \in Seq(Content \cup {NoFile})
        /\ kind = "snapshot" => Len(snapshots') = Len(snapshots) + 1
        /\ Len(snapshots') \in Nat
    <3>1. file \in Content \cup {NoFile} /\ snapshots \in Seq(Content \cup {NoFile}) BY DEF ReqTypes
    <3>2. snapshots' = IF kind = "snapshot" THEN Append(snapshots, file) ELSE snapshots
      BY <1>9 DEF SelectInput, TakeSnapshot
    <3> QED BY <3>1, <3>2
  <2>2. Size[file] \in Nat BY <1>9, RequestAssumption DEF SelectInput, Selectable, ReqTypes
  <2>3. body \in Body /\ body.place \in 0..Len(snapshots')
    <3>1. ASSUME NEW place \in 0..Len(snapshots'), NEW size \in Nat,
                 NEW b, b = [NoBody EXCEPT !.kind = kind, !.place = place, !.size = size]
          PROVE  b \in Body /\ b.place = place
      <4>1. place \in Nat BY <2>1
      <4>2. b = [kind |-> kind, place |-> place, size |-> size, sha |-> NoFile] BY <3>1 DEF NoBody
      <4> QED BY <4>1, <4>2 DEF Body
    <3>2. (IF kind = "snapshot" THEN Len(snapshots') ELSE 0) \in 0..Len(snapshots') BY <2>1
    <3>3. (IF kind = "manifest" THEN Size[file] ELSE 0) \in Nat BY <2>2
    <3> QED BY <3>1, <3>2, <3>3
  <2>4. client' = [Idle EXCEPT !.pc = "selected", !.key = key, !.body = body]
    BY <1>9 DEF SelectInput
  <2> HIDE DEF body
  <2>5. client' \in Client /\ client'.pc = "selected" /\ client'.told = 0 /\ client'.body = body
    BY <1>2, <2>3, <2>4 DEF Client
  <2>6. /\ opens' = opens + 1 /\ opens \in Nat /\ UNCHANGED <<file, posts, goals>>
        /\ \A post \in posts : post.n \in Nat /\ post.n <= opens
    BY <1>9 DEF SelectInput, ReqTypes, Post, PostsInv
  <2>7. \A post \in posts : post.n <= opens + 1 /\ post.n # opens + 1 BY <2>6
  <2>8. ReqTypes' BY <2>1, <2>3, <2>5, <2>6 DEF ReqTypes
  <2>9. PostsInv' BY <2>5, <2>6, <2>7 DEF PostsInv
  <2> QED BY <1>3, <2>5, <2>6, <2>8, <2>9 DEF ToldInv, KeysInv, LookedInv, NoGoal
<1>10. CASE HashAndPost
  <2> DEFINE body == [client.body EXCEPT !.sha = Found(client.body.place)]
             post == [n |-> opens, key |-> client.key, body |-> body]
  <2>1. Found(client.body.place) \in Content \cup {NoFile}
    BY DEF Found, ReqTypes
  <2>2. body \in Body /\ body.place = client.body.place BY <1>3, <2>1 DEF Body
  <2>3. client' = [client EXCEPT !.pc = "posted", !.body = body] /\ posts' = posts \cup {post}
    BY <1>10 DEF HashAndPost
  <2>4. post \in Post /\ post.n = opens /\ post.key = client.key /\ post.body = body
    BY <1>3, <2>2 DEF Post, ReqTypes, Client
  <2> HIDE DEF post, body
  <2>5. client' \in Client /\ client'.pc = "posted" /\ client'.told = client.told
        /\ client'.key = client.key /\ client'.body = body
    BY <1>3, <2>2, <2>3 DEF Client
  <2>6. /\ client.pc = "selected" /\ UNCHANGED <<file, snapshots, goals, opens>>
    BY <1>10 DEF HashAndPost
  <2>7. client.told = 0 BY <2>6 DEF ToldInv, NoGoal
  <2> QED BY <2>2, <2>3, <2>4, <2>5, <2>6, <2>7
          DEF ReqTypes, PostsInv, ToldInv, KeysInv, LookedInv, NoGoal
<1> QED BY <1>5, <1>6, <1>8, <1>9, <1>10

\* What the service answers to a post of now concerns the goal it names.
LEMMA AnswerStep ==
  ASSUME RequestInv, NEW post \in posts, NEW told \in Nat, Answer(post, told),
         posts' = posts \ {post}, UNCHANGED <<file, snapshots, opens>>,
         goals' \in Seq(Opened), told \in 0..Len(goals'), DOMAIN goals \subseteq DOMAIN goals',
         \A i \in DOMAIN goals : goals'[i] = goals[i],
         told # NoGoal => goals'[told].key = post.key /\ goals'[told].body = post.body
  PROVE  ReqTypes' /\ PostsInv' /\ ToldInv'
<1> USE DEF RequestInv
<1>1. NoBody \in Body /\ NoBody.place = 0 BY DEF NoBody, Body
<1>2. Idle \in Client /\ Idle.pc = "idle" /\ Idle.told = 0 /\ Idle.body = NoBody
  BY <1>1 DEF Idle, Client, NoGoal
<1>3. client \in Client /\ Len(snapshots) \in Nat /\ goals \in Seq(Opened)
  BY DEF ReqTypes, Client
<1>4. client.told \in Nat /\ (client.told # 0 => client.told \in DOMAIN goals)
  BY <1>3 DEF ToldInv, NoGoal
<1>5. client.told \in 0..Len(goals')
  <2>1. DOMAIN goals' = 1..Len(goals') BY <1>3
  <2> QED BY <1>4, <2>1
<1>6. CASE client' = client
  BY <1>3, <1>4, <1>5, <1>6 DEF ReqTypes, PostsInv, ToldInv, NoGoal
<1>7. CASE client' = Idle
  BY <1>1, <1>2, <1>3, <1>7 DEF ReqTypes, PostsInv, ToldInv, NoGoal
<1>8. CASE /\ client.pc = "posted" /\ post.n = opens /\ told # NoGoal
           /\ client' = [client EXCEPT !.pc = "over", !.told = told]
  <2>1. /\ client' \in Client /\ client'.pc = "over" /\ client'.told = told
        /\ client'.key = client.key /\ client'.body = client.body
    BY <1>3, <1>8 DEF Client
  <2>2. post.key = client.key /\ post.body = client.body BY <1>8 DEF PostsInv
  <2> QED BY <1>8, <2>1, <2>2 DEF ReqTypes, PostsInv, ToldInv
<1> QED BY <1>6, <1>7, <1>8 DEF Answer

LEMMA SubmitStep ==
  ASSUME RequestInv, NEW post \in posts, RefusePost(post) \/ OpenGoal(post) \/ KnownKey(post)
  PROVE  RequestInv'
<1> USE DEF RequestInv
<1>1. goals \in Seq(Opened) /\ Len(goals) \in Nat /\ DOMAIN goals = 1..Len(goals) /\ post \in Post
  BY DEF ReqTypes
<1>2. CASE RefusePost(post)
  BY <1>1, <1>2, AnswerStep DEF RefusePost, NoGoal, KeysInv, LookedInv
<1>3. CASE KnownKey(post)
  <2>1. PICK i \in Bound(post.key) : Answer(post, IF Conflict(post, i) THEN NoGoal ELSE i)
    BY <1>3 DEF KnownKey
  <2>2. i \in DOMAIN goals /\ goals[i].key = post.key BY DEF Bound
  <2>3. ~Conflict(post, i) => goals[i].body = post.body BY DEF Conflict
  <2> DEFINE told == IF Conflict(post, i) THEN NoGoal ELSE i
  <2>4. told \in 0..Len(goals) /\ (told # NoGoal => goals[told].key = post.key /\ goals[told].body = post.body)
    BY <1>1, <2>2, <2>3 DEF NoGoal
  <2>5. Answer(post, told) BY <2>1
  <2>6. told \in Nat /\ Len(goals) \in Nat BY <1>1, <2>4
  <2> HIDE DEF told
  <2> QED BY <1>1, <1>3, <2>4, <2>5, <2>6, AnswerStep DEF KnownKey, KeysInv, LookedInv
<1>4. CASE OpenGoal(post)
  <2>1. /\ NewGoal(post) \in Opened /\ NewGoal(post).key = post.key /\ NewGoal(post).body = post.body
        /\ NewGoal(post).task = "queued"
    BY <1>1, RequestAssumption DEF NewGoal, Opened, Post, NoRow
  <2>2. goals' = Append(goals, NewGoal(post)) /\ Answer(post, Len(goals')) BY <1>4 DEF OpenGoal
  <2>3. /\ goals' \in Seq(Opened) /\ Len(goals') = Len(goals) + 1 /\ DOMAIN goals' = 1..Len(goals) + 1
        /\ goals'[Len(goals) + 1] = NewGoal(post)
        /\ \A i \in 1..Len(goals) : goals'[i] = goals[i]
    BY <1>1, <2>1, <2>2
  <2>4. \A i \in DOMAIN goals : goals[i].key # post.key \/ post.key = NoKey
    BY <1>4 DEF OpenGoal, Bound
  <2>5. ReqTypes' /\ PostsInv' /\ ToldInv'
    BY <1>1, <1>4, <2>1, <2>2, <2>3, AnswerStep DEF OpenGoal
  <2>6. KeysInv'
    <3> SUFFICES ASSUME NEW i \in DOMAIN goals', NEW j \in DOMAIN goals',
                        goals'[i].key = goals'[j].key, goals'[i].key # NoKey
                 PROVE  i = j
      BY DEF KeysInv
    <3>1. CASE i \in DOMAIN goals /\ j \in DOMAIN goals BY <1>1, <2>3, <3>1 DEF KeysInv
    <3>2. CASE ~(i \in DOMAIN goals /\ j \in DOMAIN goals)
      <4>1. i = Len(goals) + 1 \/ j = Len(goals) + 1 BY <1>1, <2>3, <3>2
      <4>2. CASE i = Len(goals) + 1 BY <1>1, <2>1, <2>3, <2>4, <4>2
      <4>3. CASE j = Len(goals) + 1 BY <1>1, <2>1, <2>3, <2>4, <4>3
      <4> QED BY <4>1, <4>2, <4>3
    <3> QED BY <3>1, <3>2
  <2>7. LookedInv'
    <3>1. Looked(NewGoal(post)) BY <2>1 DEF Looked
    <3> QED BY <1>1, <2>3, <3>1 DEF LookedInv
  <2> QED BY <2>5, <2>6, <2>7
<1> QED BY <1>2, <1>3, <1>4

\* Goals keep their keys and what was asked of them.
Kept(old, new) == new \in Opened /\ new.key = old.key /\ new.body = old.body /\ Looked(new)

LEMMA GoalsStep ==
  ASSUME RequestInv, goals' \in Seq(Opened), DOMAIN goals' = DOMAIN goals,
         \A i \in DOMAIN goals : Kept(goals[i], goals'[i]),
         UNCHANGED <<file, snapshots, client, posts, opens>>
  PROVE  RequestInv'
<1> USE DEF RequestInv
<1>1. goals \in Seq(Opened) /\ Len(goals) \in Nat /\ DOMAIN goals = 1..Len(goals)
      /\ Len(goals') \in Nat /\ DOMAIN goals' = 1..Len(goals')
  BY DEF ReqTypes
<1>2. Len(goals') = Len(goals) BY <1>1
<1>3. ReqTypes' /\ PostsInv' BY DEF ReqTypes, PostsInv
<1>4. ToldInv' BY <1>1, <1>2 DEF ToldInv, Kept, NoGoal
<1>5. KeysInv' /\ LookedInv' BY DEF KeysInv, LookedInv, Kept
<1> QED BY <1>3, <1>4, <1>5

LEMMA PutStep ==
  ASSUME RequestInv, NEW i \in DOMAIN goals, NEW g, Kept(goals[i], g), Put(i, g), Aside
  PROVE  RequestInv'
<1>1. goals \in Seq(Opened) /\ g \in Opened BY DEF RequestInv, ReqTypes, Kept
<1>2. goals' = [goals EXCEPT ![i] = g] BY DEF Put
<1>3. goals' \in Seq(Opened) /\ DOMAIN goals' = DOMAIN goals BY <1>1, <1>2
<1>4. \A j \in DOMAIN goals : Kept(goals[j], goals'[j])
  BY <1>1, <1>2 DEF Kept, RequestInv, LookedInv
<1> QED BY <1>3, <1>4, GoalsStep DEF Aside

LEMMA DispatchKeeps ==
  ASSUME RequestInv, NEW i \in DOMAIN goals, DispatchStep(i)
  PROVE  RequestInv'
<1> DEFINE g == goals[i]
<1>1. g \in Opened /\ Looked(g) /\ file \in Content \cup {NoFile}
  BY DEF RequestInv, ReqTypes, LookedInv
<1>2. CASE HandOff(i)
  <2>1. PICK h : /\ \/ h = [g EXCEPT !.task = "handed", !.handed = "same"]
                    \/ h = [g EXCEPT !.task = "failed"]
                 /\ Put(i, h)
    BY <1>2 DEF HandOff
  <2>2. Kept(g, h) BY <1>1, <2>1 DEF Kept, Opened, Looked
  <2> QED BY <1>2, <2>1, <2>2, PutStep DEF HandOff, Quietly
<1>3. CASE StageManifest(i)
  <2>1. PICK h : /\ \/ h = [g EXCEPT !.task = "staged"] /\ g.body.kind # "manifest"
                    \/ h = [g EXCEPT !.task = "failed"]
                    \/ /\ h = [g EXCEPT !.task = "staged", !.inputs = file]
                       /\ file = g.body.sha
                 /\ Put(i, h)
    <3>1. CASE g.body.kind # "manifest" BY <1>3, <3>1 DEF StageManifest
    <3>2. CASE g.body.kind = "manifest" /\ ~MayStage(g) BY <1>3, <3>2 DEF StageManifest
    <3>3. CASE g.body.kind = "manifest" /\ MayStage(g)
      <4>1. g.inputs = NoFile /\ file = g.body.sha BY <3>3 DEF MayStage, CopyAgrees
      <4>2. Put(i, [g EXCEPT !.task = "staged", !.inputs = IF @ = NoFile THEN file ELSE @])
        BY <1>3, <3>3 DEF StageManifest
      <4>3. [g EXCEPT !.task = "staged", !.inputs = IF @ = NoFile THEN file ELSE @]
              = [g EXCEPT !.task = "staged", !.inputs = file]
        BY <1>1, <4>1 DEF Opened
      <4> QED BY <4>1, <4>2, <4>3
    <3> QED BY <3>1, <3>2, <3>3
  <2>2. g.handed = "same" BY <1>1, <1>3 DEF StageManifest, Looked
  <2>3. Kept(g, h) BY <1>1, <2>1, <2>2 DEF Kept, Opened, Looked
  <2> QED BY <1>3, <2>1, <2>3, PutStep DEF StageManifest, Quietly
<1>4. CASE StartRun(i)
  <2>1. PICK to \in {"running", "failed"} : Put(i, [g EXCEPT !.task = to]) BY <1>4 DEF StartRun
  <2>2. Kept(g, [g EXCEPT !.task = to]) BY <1>1 DEF Kept, Opened, Looked
  <2> QED BY <1>4, <2>1, <2>2, PutStep DEF StartRun, Quietly
<1>5. CASE Requeue(i)
  <2>1. Kept(g, [g EXCEPT !.task = "queued"]) BY <1>1 DEF Kept, Opened, Looked
  <2> QED BY <1>5, <2>1, PutStep DEF Requeue
<1> QED BY <1>2, <1>3, <1>4, <1>5 DEF DispatchStep

LEMMA WorkerKeeps ==
  ASSUME RequestInv, NEW i \in DOMAIN goals, WorkerStep(i) \/ LeadTick(i) \/ Decide(i)
  PROVE  RequestInv'
<1> DEFINE g == goals[i]
<1>1. g \in Opened /\ Looked(g) BY DEF RequestInv, ReqTypes, LookedInv
<1>2. LeadTries \in Nat \ {0} BY RequestAssumption
<1>3. ASSUME NEW n \in -1..LeadTries PROVE Kept(g, [g EXCEPT !.lead = n])
  BY <1>1 DEF Kept, Opened, Looked
<1>4. ASSUME NEW b \in BOOLEAN PROVE Kept(g, [g EXCEPT !.human = b])
  BY <1>1 DEF Kept, Opened, Looked
<1>5. CASE WorkerWrites(i)
  <2>1. PICK h : /\ \/ \E c \in Content : h = [g EXCEPT !.inputs = c]
                    \/ h = [g EXCEPT !.handed = "changed"]
                 /\ Put(i, h)
    BY <1>5 DEF WorkerWrites
  <2>2. g.task = "running" BY <1>5 DEF WorkerWrites
  <2>3. Kept(g, h) BY <1>1, <2>1, <2>2 DEF Kept, Opened, Looked
  <2> QED BY <1>5, <2>1, <2>3, PutStep DEF WorkerWrites
<1>6. CASE WorkerEnds(i)
  <2>1. PICK h : /\ \/ h = [g EXCEPT !.task = "succeeded", !.inputs = NoFile, !.handed = "none"]
                    \/ h = [g EXCEPT !.task = "failed"]
                 /\ Put(i, h)
    BY <1>6 DEF WorkerEnds
  <2>2. Kept(g, h) BY <1>1, <2>1 DEF Kept, Opened, Looked
  <2> QED BY <1>6, <2>1, <2>2, PutStep DEF WorkerEnds, Quietly
<1>7. CASE Ask(i)
  <2>1. Put(i, [g EXCEPT !.lead = 0]) \/ Put(i, [g EXCEPT !.human = TRUE]) BY <1>7 DEF Ask
  <2>2. 0 \in -1..LeadTries BY <1>2
  <2> QED BY <1>3, <1>4, <1>7, <2>1, <2>2, PutStep DEF Ask, Quietly
<1>8. CASE Decide(i)
  <2>1. Put(i, [g EXCEPT !.lead = -1]) \/ Put(i, [g EXCEPT !.human = FALSE])
    BY <1>8 DEF Decide, NoRow
  <2>2. -1 \in -1..LeadTries BY <1>2
  <2> QED BY <1>3, <1>4, <1>8, <2>1, <2>2, PutStep DEF Decide, Quietly
<1>9. CASE LeadTick(i)
  <2>1. g.lead \in 0..(LeadTries - 1) BY <1>9 DEF LeadTick, LeadWillDecide
  <2>2. {g.lead + 1, LeadTries, -1} \subseteq -1..LeadTries BY <1>2, <2>1
  <2>3. \E n \in {g.lead + 1, LeadTries, -1} : Put(i, [g EXCEPT !.lead = n])
    BY <1>9 DEF LeadTick, LeadFails, LeadDecides, NoRow
  <2> QED BY <1>3, <1>9, <2>2, <2>3, PutStep DEF LeadTick, Quietly
<1> QED BY <1>5, <1>6, <1>7, <1>8, <1>9 DEF WorkerStep

LEMMA SurpriseKeeps ==
  ASSUME RequestInv, Restart \/ FileChanges \/ CleanSnapshots
  PROVE  RequestInv'
<1> USE DEF RequestInv
<1>1. CASE Restart
  <2>1. goals \in Seq(Opened) /\ DOMAIN goals = 1..Len(goals) /\ Len(goals) \in Nat BY DEF ReqTypes
  <2> DEFINE new(g) == IF g.task \in {"handed", "staged"} THEN [g EXCEPT !.task = "queued"] ELSE g
  <2>2. \A i \in DOMAIN goals : Kept(goals[i], new(goals[i]))
    <3> TAKE i \in DOMAIN goals
    <3>1. goals[i] \in Opened /\ Looked(goals[i]) BY DEF ReqTypes, LookedInv
    <3> QED BY <3>1 DEF Kept, Opened, Looked
  <2>3. goals' = [i \in DOMAIN goals |-> new(goals[i])] BY <1>1 DEF Restart
  <2>4. \A i \in DOMAIN goals : new(goals[i]) \in Opened BY <2>2 DEF Kept
  <2> HIDE DEF new
  <2>5. goals' \in Seq(Opened) /\ DOMAIN goals' = DOMAIN goals BY <2>1, <2>3, <2>4
  <2>6. \A i \in DOMAIN goals : Kept(goals[i], goals'[i]) BY <2>2, <2>3
  <2> QED BY <1>1, <2>5, <2>6, GoalsStep DEF Restart, Aside
<1>2. CASE FileChanges
  BY <1>2 DEF FileChanges, ReqTypes, PostsInv, ToldInv, KeysInv, LookedInv
<1>3. CASE CleanSnapshots
  <2>1. snapshots \in Seq(Content \cup {NoFile}) /\ Len(snapshots) \in Nat BY DEF ReqTypes
  <2>2. PICK n \in DOMAIN snapshots :
               snapshots' = [m \in DOMAIN snapshots |-> IF m <= n THEN NoFile ELSE snapshots[m]]
    BY <1>3 DEF CleanSnapshots
  <2>3. snapshots' \in Seq(Content \cup {NoFile}) /\ Len(snapshots') = Len(snapshots)
    <3>1. DOMAIN snapshots = 1..Len(snapshots) /\ \A m \in DOMAIN snapshots : snapshots[m] \in Content \cup {NoFile}
      BY <2>1
    <3>2. \A m \in 1..Len(snapshots) : (IF m <= n THEN NoFile ELSE snapshots[m]) \in Content \cup {NoFile}
      BY <3>1
    <3> QED BY <2>1, <2>2, <3>1, <3>2
  <2> QED BY <1>3, <2>3 DEF CleanSnapshots, ReqTypes, PostsInv, ToldInv, KeysInv, LookedInv
<1> QED BY <1>1, <1>2, <1>3

LEMMA RequestStep == RequestInv /\ (RequestNext \/ UNCHANGED qvars) => RequestInv'
<1> SUFFICES ASSUME RequestInv, RequestNext \/ UNCHANGED qvars PROVE RequestInv' OBVIOUS
<1>1. CASE UNCHANGED qvars
  BY <1>1 DEF qvars, RequestInv, ReqTypes, PostsInv, ToldInv, KeysInv, LookedInv
<1>2. CASE RequestNext
  BY <1>2, ClientStep, SubmitStep, DispatchKeeps, WorkerKeeps, SurpriseKeeps DEF RequestNext
<1> QED BY <1>1, <1>2

LEMMA RequestInvariant == GoalSpec => []RequestInv
<1>1. GoalInit => RequestInv BY RequestInit_Inv DEF GoalInit
<1>2. RequestInv /\ [GoalNext]_gvars => RequestInv' BY RequestStep DEF GoalNext, gvars
<1> QED BY <1>1, <1>2, PTL DEF GoalSpec

\* The files, the posts and the goals keep their shape, and a client is told of goals that
\* there are.
THEOREM RequestTypeCorrect == GoalSpec => []RequestTypeOK
<1>1. RequestInv => RequestTypeOK
  <2> SUFFICES ASSUME RequestInv PROVE RequestTypeOK OBVIOUS
  <2>1. /\ file \in Content \cup {NoFile}
        /\ client.pc \in {"idle", "selected", "posted", "polling", "over"}
    BY DEF RequestInv, ReqTypes, Client
  <2>2. /\ client.told \in 0..Len(goals)
        /\ client.pc \in {"polling", "over"} => client.told # NoGoal
    BY DEF RequestInv, ToldInv
  <2>3. \A i \in DOMAIN goals : goals[i] \in Opened BY DEF RequestInv, ReqTypes
  <2>4. \A i \in DOMAIN goals : goals[i].lead \in -1..LeadTries /\ goals[i].inputs \in Content \cup {NoFile}
    BY <2>3 DEF Opened
  <2> QED BY <2>1, <2>2, <2>4 DEF RequestTypeOK
<1> QED BY <1>1, RequestInvariant, PTL

\* submit and the staging of inputs: one goal of one key, the goal that the client asked
\* for, and a worker that starts on what was hashed, through lost answers, changed files,
\* crashes between copy and start and workers that overwrite their inputs.
THEOREM WorkersStartOnWhatWasOpened == GoalSpec => []RunsOnWhatWasOpened
<1>1. RequestInv => RunsOnWhatWasOpened
  BY DEF RequestInv, ToldInv, KeysInv, LookedInv, Looked, RunsOnWhatWasOpened
<1> QED BY <1>1, RequestInvariant, PTL

----------------------------------------------------------------------------
(* The planning.                                                           *)

Draft == {out.draft : out \in Output}
Row == UNION {Range(out.draft.rows) : out \in Output}
GoalRow == [state : Ended \cup {"queued", "running", "cancel_requested"}, tasks : Seq(Row),
            misplanned : BOOLEAN]
TickRow == [pc : {"idle", "plan", "cancelled", "ended", "advance", "wait", "take", "fail", "admit"},
            call : Call \cup {NoCall}, left : Seq(Row)]
CallRow == [pc : {"unused", "thread", "spawned", "recorded", "waiting", "over"},
            cancelled : BOOLEAN, attached : BOOLEAN, done : BOOLEAN, plan : Draft \cup {Nothing}]

PlanTypes ==
  /\ goal \in GoalRow /\ tick \in [Ticker -> TickRow] /\ call \in [Call -> CallRow]
  /\ service \in {"up", "stopping", "swept", "down"}
  /\ lock \in Ticker \cup {NoTicker} /\ planning \in Call \cup {NoCall}
  /\ alive \in SUBSET Call /\ registry \in SUBSET Call /\ stops \in 0..MaxStops

\* A ticker is at work only with the lock; while it admits, the tasks that the goal has
\* and the ones still to come are of one valid plan.
Distinct(rows) == \A i, j \in DOMAIN rows : rows[i].key = rows[j].key => i = j
OneOf(done, left) ==
  /\ Distinct(left)
  /\ \A i \in DOMAIN done, j \in DOMAIN left : done[i].key # left[j].key
Works(t) ==
  /\ tick[t].pc \notin {"idle", "wait"} => lock = t
  /\ tick[t].pc \in {"wait", "take"} => tick[t].call \in Call
  /\ tick[t].pc = "fail" => goal.tasks = <<>>
  /\ tick[t].pc = "admit" => OneOf(goal.tasks, tick[t].left)

PlansInv == \A k \in Call : call[k].plan # Nothing => ValidPlan(call[k].plan)
GoalInv == /\ Distinct(goal.tasks)
           /\ goal.misplanned => goal.state = "failed" /\ goal.tasks = <<>>
PlanInv == PlanTypes /\ PlansInv /\ GoalInv /\ \A t \in Ticker : Works(t)

\* validate_plan: as many keys as rows, so no key twice.
LEMMA ValidRows ==
  ASSUME NEW draft \in Draft, ValidPlan(draft)
  PROVE  draft.rows \in Seq(Row) /\ Distinct(draft.rows)
<1>1. PICK out \in Output : draft = out.draft BY DEF Draft
<1>2. draft.rows \in Seq(Range(draft.rows)) BY <1>1, PlanningAssumption
<1>3. Range(draft.rows) \subseteq Row BY <1>1 DEF Row
<1> DEFINE n == Len(draft.rows)
<1>4. n \in Nat /\ DOMAIN draft.rows = 1..n BY <1>2
<1>5. draft.rows \in Seq(Row)
  <2>1. \A i \in 1..n : draft.rows[i] \in Row BY <1>2, <1>3, <1>4
  <2>2. draft.rows \in [1..n -> Range(draft.rows)] BY <1>2, <1>4
  <2>3. draft.rows \in [1..n -> Row] BY <1>3, <2>2
  <2> QED BY <1>4, <2>3
<1>6. Cardinality(Keys(draft)) = n BY DEF ValidPlan, UniqueKeys
<1> DEFINE f == [i \in 1..n |-> draft.rows[i].key]
<1>7. f \in Surjection(1..n, Keys(draft)) BY <1>4 DEF Surjection, Keys
<1>8. IsFiniteSet(1..n) /\ Cardinality(1..n) = n BY <1>4, FS_Interval
<1>9. f \in Injection(1..n, Keys(draft)) BY <1>6, <1>7, <1>8, FS_SurjSameCardinalityImpliesInj
<1>10. \A i, j \in 1..n : f[i] = f[j] => i = j BY <1>9 DEF Injection, IsInjective
<1> QED BY <1>4, <1>5, <1>10 DEF Distinct

LEMMA LeastExists ==
  ASSUME NEW S \in SUBSET Nat, S # {}
  PROVE  Min(S) \in S
<1> DEFINE Less == OpToRel(<, Nat)
<1>1. IsWellFoundedOn(Less, Nat) BY NatLessThanWellFounded
<1>2. \A m, n \in Nat : m < n => <<m, n>> \in Less BY DEF OpToRel
<1> HIDE DEF Less
<1>3. PICK n \in S : \A m \in S : ~(<<m, n>> \in Less) BY <1>1, WFMin
<1>4. \A m \in S : ~(m < n) BY <1>2, <1>3
<1>5. \E x \in S : \A y \in S : x <= y BY <1>4
<1> QED BY <1>5 DEF Min

LEMMA PlanInit_Inv == PlanInit => PlanInv
<1> SUFFICES ASSUME PlanInit PROVE PlanInv OBVIOUS
<1>1. NewCall \in CallRow /\ NewCall.plan = Nothing BY DEF NewCall, CallRow
<1>2. AtRest \in TickRow /\ AtRest.pc = "idle" BY DEF AtRest, TickRow, NoCall
<1>3. goal \in GoalRow /\ goal.tasks = << >> /\ ~goal.misplanned BY DEF PlanInit, GoalRow
<1>4. PlanTypes BY <1>1, <1>2, <1>3, PlanningAssumption DEF PlanInit, PlanTypes
<1> QED BY <1>1, <1>2, <1>3, <1>4
        DEF PlanInit, PlanInv, PlansInv, GoalInv, Works, Distinct

\* A step that leaves the tickers and the tasks alone.
LEMMA AsideFrame ==
  ASSUME PlanInv, UNCHANGED <<tick, lock>>, goal'.tasks = goal.tasks, PlanTypes', PlansInv',
         goal'.misplanned => goal.misplanned /\ goal'.state = goal.state
  PROVE  PlanInv'
  BY DEF PlanInv, GoalInv, Works

\* A step of the ticker that has the lock, or takes it while it is free.
LEMMA TickFrame ==
  ASSUME PlanInv, NEW t \in Ticker, lock \in {t, NoTicker}, PlanTypes', PlansInv', GoalInv', Works(t)',
         \A u \in Ticker \ {t} : tick'[u] = tick[u]
  PROVE  PlanInv'
<1>1. ASSUME NEW u \in Ticker \ {t} PROVE Works(u)'
  <2>1. lock # u BY PlanningAssumption
  <2>2. tick[u].pc \in {"idle", "wait"} /\ Works(u) BY <2>1 DEF PlanInv, Works
  <2>3. tick'[u] = tick[u] OBVIOUS
  <2> QED BY <2>2, <2>3 DEF Works
<1> QED BY <1>1 DEF PlanInv

\* One call changes; its plan is the old one, none, or a valid one.
LEMMA CallFrame ==
  ASSUME PlanInv, NEW k \in Call, NEW row \in CallRow, call' = [call EXCEPT ![k] = row],
         row.plan = Nothing \/ row.plan = call[k].plan \/ ValidPlan(row.plan)
  PROVE  call' \in [Call -> CallRow] /\ PlansInv'
<1>1. call \in [Call -> CallRow] /\ PlansInv BY DEF PlanInv, PlanTypes
<1>2. call' \in [Call -> CallRow] /\ \A j \in Call : call'[j] = IF j = k THEN row ELSE call[j]
  BY <1>1
<1> QED BY <1>1, <1>2 DEF PlansInv

\* The thread of a call, and the lead.
LEMMA CallSteps ==
  ASSUME PlanInv, NEW k \in Call, CallStep(k) \/ LeadExits(k) \/ CallTimesOut(k)
  PROVE  PlanInv'
<1>1. call[k] \in CallRow BY DEF PlanInv, PlanTypes
<1>2. NewCall \in CallRow BY DEF NewCall, CallRow
<1>3. ASSUME UNCHANGED <<goal, service, lock, tick, planning, stopping, stops>>,
             call' \in [Call -> CallRow], PlansInv', alive' \subseteq Call, registry' \subseteq Call
      PROVE  PlanInv'
  <2>1. PlanTypes' BY <1>3 DEF PlanInv, PlanTypes
  <2> QED BY <1>3, <2>1, AsideFrame DEF PlanInv
<1>4. /\ alive' \subseteq Call /\ registry' \subseteq Call
      /\ UNCHANGED <<goal, service, lock, tick, planning, stopping, stops>>
  BY DEF PlanInv, PlanTypes, CallStep, SpawnFails, SpawnLead, RegisterProcess, Attach, StopTrees,
         CallReturns, LeadExits, CallTimesOut
<1>5. ASSUME NEW row \in CallRow, call' = [call EXCEPT ![k] = row],
             row.plan = Nothing \/ row.plan = call[k].plan \/ ValidPlan(row.plan)
      PROVE  PlanInv'
  BY <1>3, <1>4, <1>5, CallFrame
<1>6. CASE SpawnFails(k)
  <2> DEFINE row == [call[k] EXCEPT !.pc = "over", !.done = TRUE]
  <2>1. row \in CallRow /\ row.plan = call[k].plan BY <1>1 DEF CallRow
  <2>2. call' = [call EXCEPT ![k] = row] BY <1>6 DEF SpawnFails
  <2> HIDE DEF row
  <2> QED BY <1>5, <2>1, <2>2
<1>7. ASSUME NEW pc \in {"spawned", "recorded"}, call' = [call EXCEPT ![k].pc = pc] PROVE PlanInv'
  <2> DEFINE row == [call[k] EXCEPT !.pc = pc]
  <2>1. row \in CallRow /\ row.plan = call[k].plan BY <1>1 DEF CallRow
  <2>2. call' = [call EXCEPT ![k] = row] BY <1>7
  <2> HIDE DEF row
  <2> QED BY <1>5, <2>1, <2>2
<1>8. CASE SpawnLead(k) \/ RegisterProcess(k) BY <1>7, <1>8 DEF SpawnLead, RegisterProcess
<1>9. CASE Attach(k)
  <2> DEFINE row == [call[k] EXCEPT !.pc = "waiting", !.attached = ~call[k].cancelled]
  <2>1. row \in CallRow /\ row.plan = call[k].plan BY <1>1 DEF CallRow
  <2>2. call' = [call EXCEPT ![k] = row] BY <1>9 DEF Attach
  <2> HIDE DEF row
  <2> QED BY <1>5, <2>1, <2>2
<1>10. CASE LeadExits(k)
  <2>1. PICK plan_ : /\ call' = [call EXCEPT ![k].plan = plan_]
                     /\ plan_ = Nothing \/ (plan_ \in Draft /\ ValidPlan(plan_))
    <3>1. PICK out \in Output : call' = [call EXCEPT ![k].plan =
             IF call[k].pc # "unused" /\ ~call[k].cancelled /\ ValidPlan(Decision(out))
             THEN Decision(out) ELSE Nothing]
      BY <1>10 DEF LeadExits
    <3>2. Decision(out) \in Draft \cup {Nothing}
      BY DEF Decision, StrictDecision, LooseDecision, Unwrapped, Draft
    <3>3. ~ValidPlan(Nothing) BY DEF ValidPlan
    <3> QED BY <3>1, <3>2, <3>3
  <2> DEFINE row == [call[k] EXCEPT !.plan = plan_]
  <2>2. row \in CallRow /\ row.plan = plan_ BY <1>1, <2>1 DEF CallRow
  <2>3. call' = [call EXCEPT ![k] = row] BY <2>1
  <2> HIDE DEF row
  <2> QED BY <1>5, <2>1, <2>2, <2>3
<1>11. CASE CallReturns(k)
  <2> DEFINE row == [NewCall EXCEPT !.pc = "over", !.done = TRUE,
                       !.plan = IF call[k].cancelled THEN Nothing ELSE call[k].plan]
  <2>1. row \in CallRow /\ (row.plan = Nothing \/ row.plan = call[k].plan)
    <3>1. ASSUME NEW x \in Draft \cup {Nothing}
          PROVE  /\ [NewCall EXCEPT !.pc = "over", !.done = TRUE, !.plan = x] \in CallRow
                 /\ [NewCall EXCEPT !.pc = "over", !.done = TRUE, !.plan = x].plan = x
      BY <1>2 DEF CallRow
    <3>2. (IF call[k].cancelled THEN Nothing ELSE call[k].plan) \in Draft \cup {Nothing}
      BY <1>1 DEF CallRow
    <3> QED BY <3>1, <3>2
  <2>2. call' = [call EXCEPT ![k] = row] BY <1>11 DEF CallReturns
  <2> HIDE DEF row
  <2> QED BY <1>5, <2>1, <2>2
<1>12. CASE CallTimesOut(k)
  <2> DEFINE row == [NewCall EXCEPT !.pc = "over", !.done = TRUE]
  <2>1. row \in CallRow /\ row.plan = Nothing BY <1>2 DEF CallRow, NewCall
  <2>2. call' = [call EXCEPT ![k] = row] BY <1>12 DEF CallTimesOut
  <2> HIDE DEF row
  <2> QED BY <1>5, <2>1, <2>2
<1> QED BY <1>6, <1>8, <1>9, <1>10, <1>11, <1>12 DEF CallStep

\* The service, and a cancel from outside.
LEMMA ServiceSteps ==
  ASSUME PlanInv,
         \/ StopPlanning \/ CancelGoal \/ CancelEffected
         \/ Crash \/ Shutdown \/ StopAllPlanning \/ Exit \/ Start
  PROVE  PlanInv'
<1>1. /\ PlanTypes /\ goal \in GoalRow /\ call \in [Call -> CallRow] BY DEF PlanInv, PlanTypes
<1>2. NewCall \in CallRow /\ NewCall.plan = Nothing BY DEF NewCall, CallRow
<1>3. AtRest \in TickRow /\ AtRest.pc = "idle" BY DEF AtRest, TickRow, NoCall
<1>4. ASSUME Unplanned(planning) PROVE call' \in [Call -> CallRow] /\ PlansInv'
  <2>1. CASE planning = NoCall \/ call[planning].done
    BY <1>1, <1>4, <2>1 DEF Unplanned, PlanInv, PlansInv
  <2>2. CASE planning # NoCall /\ ~call[planning].done
    <3>1. planning \in Call BY <1>1, <2>2 DEF PlanTypes
    <3> DEFINE row == [call[planning] EXCEPT !.cancelled = TRUE, !.attached = FALSE]
    <3>2. row \in CallRow /\ row.plan = call[planning].plan BY <1>1, <3>1 DEF CallRow
    <3>3. call' = [call EXCEPT ![planning] = row] BY <1>4, <2>2 DEF Unplanned
    <3> HIDE DEF row
    <3> QED BY <3>1, <3>2, <3>3, CallFrame
  <2> QED BY <2>1, <2>2
<1>5. Unplanned(planning) => alive' \subseteq Call /\ planning' = NoCall
  BY <1>1 DEF Unplanned, StopTrees, PlanTypes
<1>6. CASE StopPlanning \/ StopAllPlanning
  <2>1. /\ Unplanned(planning) /\ service' \in {"up", "stopping", "swept", "down"}
        /\ UNCHANGED <<goal, lock, tick, registry, stops>>
    BY <1>1, <1>6 DEF StopPlanning, StopAllPlanning, PlanTypes
  <2>2. PlanTypes' BY <1>1, <1>4, <1>5, <2>1 DEF PlanTypes
  <2> QED BY <1>4, <2>1, <2>2, AsideFrame
<1>7. CASE CancelGoal \/ CancelEffected
  <2>1. /\ goal.state \in {"queued", "running", "cancel_requested"}
        /\ \E st \in {"cancel_requested", "cancelled"} : goal' = [goal EXCEPT !.state = st]
        /\ UNCHANGED <<service, lock, tick, planning, call, alive, registry, stops>>
    BY <1>7 DEF CancelGoal, CancelEffected
  <2>2. goal' \in GoalRow /\ goal'.tasks = goal.tasks /\ goal'.misplanned = goal.misplanned
    BY <1>1, <2>1 DEF GoalRow, Ended
  <2>3. ~goal.misplanned BY <2>1 DEF PlanInv, GoalInv
  <2>4. PlanTypes' /\ PlansInv' BY <1>1, <2>1, <2>2 DEF PlanTypes, PlanInv, PlansInv
  <2> QED BY <2>1, <2>2, <2>3, <2>4, AsideFrame
<1>8. CASE Shutdown \/ Start
  <2>1. /\ UNCHANGED <<goal, lock, tick, planning, call>> /\ alive' \subseteq Call /\ registry' \subseteq Call
        /\ service' \in {"up", "stopping", "swept", "down"} /\ stops' \in 0..MaxStops
    BY <1>1, <1>8, PlanningAssumption DEF Shutdown, Start, StopTrees, PlanTypes
  <2>2. PlanTypes' /\ PlansInv' BY <1>1, <2>1 DEF PlanTypes, PlanInv, PlansInv
  <2> QED BY <2>1, <2>2, AsideFrame
<1>9. CASE Crash \/ Exit
  <2>1. Gone /\ UNCHANGED <<goal, alive, registry>> /\ stops' \in 0..MaxStops
    BY <1>1, <1>9, PlanningAssumption DEF Crash, Exit, PlanTypes
  <2>2. /\ tick' = [t \in Ticker |-> AtRest] /\ call' = [k \in Call |-> NewCall]
        /\ lock' = NoTicker /\ planning' = NoCall /\ service' = "down"
    BY <2>1 DEF Gone
  <2>3. PlanTypes' /\ PlansInv' BY <1>1, <1>2, <1>3, <2>1, <2>2 DEF PlanTypes, PlansInv
  <2>4. \A t \in Ticker : Works(t)' BY <1>3, <2>2 DEF Works
  <2> QED BY <2>1, <2>3, <2>4 DEF PlanInv, GoalInv
<1> QED BY <1>6, <1>7, <1>8, <1>9

\* One row more of a plan.
LEMMA AdmitOne ==
  ASSUME NEW done \in Seq(Row), NEW left \in Seq(Row), left # <<>>, Distinct(done), OneOf(done, left)
  PROVE  Distinct(Append(done, Head(left))) /\ OneOf(Append(done, Head(left)), Tail(left))
<1> DEFINE n == Len(done)  m == Len(left)
<1>1. /\ n \in Nat /\ DOMAIN done = 1..n /\ m \in Nat /\ m > 0 /\ DOMAIN left = 1..m
      /\ 1 \in DOMAIN left /\ Head(left) = left[1]
  OBVIOUS
<1>2. /\ DOMAIN Append(done, Head(left)) = 1..(n + 1) /\ Append(done, Head(left))[n + 1] = left[1]
      /\ \A i \in 1..n : Append(done, Head(left))[i] = done[i]
  BY <1>1
<1>3. /\ DOMAIN Tail(left) = 1..(m - 1) /\ \A j \in 1..(m - 1) : Tail(left)[j] = left[j + 1]
  BY <1>1
<1>4. \A j \in 1..(m - 1) : j + 1 \in 1..m /\ j + 1 # 1 BY <1>1
<1>5. \A i \in 1..n : done[i].key # left[1].key BY <1>1 DEF OneOf
<1>6. Distinct(Append(done, Head(left)))
  <2> SUFFICES ASSUME NEW i \in 1..(n + 1), NEW j \in 1..(n + 1),
                      Append(done, Head(left))[i].key = Append(done, Head(left))[j].key
               PROVE  i = j
    BY <1>2 DEF Distinct
  <2>1. CASE i \in 1..n /\ j \in 1..n BY <1>1, <1>2, <2>1 DEF Distinct
  <2>2. CASE i = n + 1 /\ j \in 1..n BY <1>2, <1>5, <2>2
  <2>3. CASE j = n + 1 /\ i \in 1..n BY <1>2, <1>5, <2>3
  <2> QED BY <1>1, <2>1, <2>2, <2>3
<1>7. Distinct(Tail(left))
  <2> SUFFICES ASSUME NEW i \in 1..(m - 1), NEW j \in 1..(m - 1), Tail(left)[i].key = Tail(left)[j].key
               PROVE  i = j
    BY <1>3 DEF Distinct
  <2>1. i + 1 = j + 1 BY <1>1, <1>3, <1>4 DEF OneOf, Distinct
  <2> QED BY <2>1
<1>8. ASSUME NEW i \in 1..(n + 1), NEW j \in 1..(m - 1)
      PROVE  Append(done, Head(left))[i].key # Tail(left)[j].key
  <2>1. CASE i \in 1..n BY <1>1, <1>2, <1>3, <1>4, <2>1 DEF OneOf
  <2>2. CASE i = n + 1
    <3>1. left[1].key # left[j + 1].key BY <1>1, <1>4 DEF OneOf, Distinct
    <3> QED BY <1>2, <1>3, <2>2, <3>1
  <2> QED BY <1>1, <2>1, <2>2
<1> QED BY <1>2, <1>3, <1>6, <1>7, <1>8 DEF OneOf

\* A ticker moves to a row: what it then owes.
LEMMA TickMoves ==
  ASSUME PlanInv, NEW t \in Ticker, lock \in {t, NoTicker},
         NEW row \in TickRow, tick' = [tick EXCEPT ![t] = row], lock' \in {t, NoTicker},
         row.pc \notin {"idle", "wait"} => lock' = t,
         row.pc \in {"wait", "take"} => row.call \in Call,
         row.pc = "fail" => goal'.tasks = <<>>,
         row.pc = "admit" => OneOf(goal'.tasks, row.left),
         goal' \in GoalRow, GoalInv', call' \in [Call -> CallRow], PlansInv',
         planning' \in Call \cup {NoCall}, registry' \subseteq Call,
         UNCHANGED <<service, alive, stops>>
  PROVE  PlanInv'
<1>1. /\ tick \in [Ticker -> TickRow] BY DEF PlanInv, PlanTypes
<1>2. tick' \in [Ticker -> TickRow] /\ tick'[t] = row /\ \A u \in Ticker \ {t} : tick'[u] = tick[u]
  BY <1>1
<1>3. PlanTypes' BY <1>2 DEF PlanInv, PlanTypes
<1>4. Works(t)' BY <1>2 DEF Works
<1> QED BY <1>2, <1>3, <1>4, TickFrame

\* A step of a ticker that leaves goal and calls alone.
LEMMA TickTurns ==
  ASSUME PlanInv, NEW t \in Ticker, lock \in {t, NoTicker},
         NEW row \in TickRow, tick' = [tick EXCEPT ![t] = row], lock' \in {t, NoTicker},
         row.pc \notin {"idle", "wait"} => lock' = t,
         row.pc \in {"wait", "take"} => row.call \in Call,
         row.pc \notin {"fail", "admit"},
         planning' \in Call \cup {NoCall}, UNCHANGED <<goal, call, registry, service, alive, stops>>
  PROVE  PlanInv'
<1>1. goal \in GoalRow /\ call \in [Call -> CallRow] /\ registry \subseteq Call /\ PlansInv /\ GoalInv
  BY DEF PlanInv, PlanTypes
<1>2. GoalInv' /\ PlansInv' BY <1>1 DEF GoalInv, PlansInv
<1> QED BY <1>1, <1>2, TickMoves

LEMMA TickSteps ==
  ASSUME PlanInv, NEW t \in Ticker, BeginTick(t) \/ TickStep(t)
  PROVE  PlanInv'
<1>1. /\ goal \in GoalRow /\ tick[t] \in TickRow /\ call \in [Call -> CallRow]
      /\ tick \in [Ticker -> TickRow] /\ planning \in Call \cup {NoCall}
      /\ registry \subseteq Call /\ PlansInv /\ GoalInv /\ Works(t)
  BY DEF PlanInv, PlanTypes
<1>2. AtRest \in TickRow /\ AtRest.pc = "idle" BY DEF AtRest, TickRow, NoCall
<1>3. tick[t].pc \notin {"idle", "wait"} => lock = t BY <1>1 DEF Works
<1>4. CASE \/ TickOfEnded(t) \/ Advance(t) \/ StillPlanning(t) \/ Discard(t) \/ Admitted(t)
  <2>1. tick[t].pc \notin {"idle", "wait"}
    BY <1>4 DEF TickOfEnded, Advance, StillPlanning, Discard, Admitted, At
  <2>2. /\ Leave(t) /\ planning' \in {planning, NoCall}
        /\ UNCHANGED <<goal, call, registry, service, alive, stops>>
    BY <1>4 DEF TickOfEnded, Advance, StillPlanning, Discard, Admitted, StopAsync
  <2> QED BY <1>1, <1>2, <1>3, <2>1, <2>2, TickTurns DEF Leave
<1>5. CASE BeginTick(t)
  <2>1. PICK pc \in {"plan", "cancelled", "ended", "advance"} : tick' = [tick EXCEPT ![t].pc = pc]
    BY <1>5 DEF BeginTick
  <2> DEFINE row == [tick[t] EXCEPT !.pc = pc]
  <2>2. row \in TickRow /\ row.pc = pc BY <1>1 DEF TickRow
  <2>3. tick' = [tick EXCEPT ![t] = row] BY <2>1
  <2>4. /\ lock = NoTicker /\ lock' = t
        /\ UNCHANGED <<goal, service, planning, call, alive, registry, stopping, stops>>
    BY <1>5 DEF BeginTick
  <2> HIDE DEF row
  <2> QED BY <1>1, <2>2, <2>3, <2>4, TickTurns
<1>6. CASE TickOfCancelled(t)
  <2>1. tick[t].pc = "cancelled" /\ Leave(t) /\ planning' \in {planning, NoCall}
        /\ UNCHANGED <<call, registry, service, alive, stops>>
    BY <1>6 DEF TickOfCancelled, StopAsync, At
  <2>2. goal' = goal \/ (goal.state = "cancel_requested" /\ goal' = [goal EXCEPT !.state = "cancelled"])
    BY <1>6 DEF TickOfCancelled
  <2>3. goal' \in GoalRow /\ GoalInv' BY <1>1, <2>2 DEF GoalRow, GoalInv, Ended
  <2>4. PlansInv' BY <1>1, <2>1 DEF PlansInv
  <2> QED BY <1>1, <1>2, <1>3, <2>1, <2>3, <2>4, TickMoves DEF Leave
<1>7. CASE StartCall(t)
  <2>1. tick[t].pc = "plan" BY <1>7 DEF StartCall, At
  <2>2. NextFree \in Call
    <3>1. {k \in Call : Free(k)} # {} BY <1>7 DEF StartCall
    <3>2. {k \in Call : Free(k)} \subseteq Nat BY DEF Call
    <3> QED BY <3>1, <3>2, LeastExists DEF NextFree
  <2> DEFINE row == [NewCall EXCEPT !.pc = "thread"]
             trow == [AtRest EXCEPT !.pc = "wait", !.call = NextFree]
  <2>3. row \in CallRow /\ row.plan = Nothing BY DEF NewCall, CallRow
  <2>4. trow \in TickRow /\ trow.pc = "wait" /\ trow.call \in Call BY <1>2, <2>2 DEF TickRow
  <2>5. /\ call' = [call EXCEPT ![NextFree] = row] /\ tick' = [tick EXCEPT ![t] = trow]
        /\ planning' = NextFree /\ lock' = NoTicker /\ registry' = registry \ {NextFree}
        /\ UNCHANGED <<goal, service, alive, stopping, stops>>
    BY <1>7 DEF StartCall
  <2> HIDE DEF row, trow
  <2>6. call' \in [Call -> CallRow] /\ PlansInv' BY <2>2, <2>3, <2>5, CallFrame
  <2>7. GoalInv' /\ goal' \in GoalRow BY <1>1, <2>5 DEF GoalInv
  <2> QED BY <1>1, <1>3, <2>1, <2>2, <2>4, <2>5, <2>6, <2>7, TickMoves
<1>8. CASE PickUp(t)
  <2>1. tick[t].pc = "plan" /\ tick' = [tick EXCEPT ![t] = [AtRest EXCEPT !.pc = "take", !.call = planning]]
        /\ planning' = NoCall /\ UNCHANGED <<goal, service, lock, call, alive, registry, stopping, stops>>
    BY <1>8 DEF PickUp, At
  <2> DEFINE trow == [AtRest EXCEPT !.pc = "take", !.call = planning]
  <2>2. trow \in TickRow /\ trow.pc = "take" /\ trow.call \in Call
    <3>1. planning \in Call BY <1>1, <1>8 DEF PickUp
    <3> QED BY <1>2, <3>1 DEF TickRow
  <2>3. tick' = [tick EXCEPT ![t] = trow] BY <2>1
  <2> HIDE DEF trow
  <2> QED BY <1>1, <1>3, <2>1, <2>2, <2>3, TickTurns
<1>9. CASE WaitEnds(t)
  <2>1. lock = NoTicker /\ UNCHANGED <<goal, service, call, alive, registry, stopping, stops>>
    BY <1>9 DEF WaitEnds
  <2>2. CASE Leave(t) /\ UNCHANGED planning
    BY <1>1, <1>2, <2>1, <2>2, TickTurns DEF Leave
  <2>3. CASE planning' = NoCall /\ lock' = t /\ tick' = [tick EXCEPT ![t].pc = "take"]
    <3> DEFINE row == [tick[t] EXCEPT !.pc = "take"]
    <3>1. row \in TickRow /\ row.pc = "take" /\ row.call = tick[t].call BY <1>1 DEF TickRow
    <3>2. tick' = [tick EXCEPT ![t] = row] /\ tick[t].call \in Call
      BY <1>1, <1>9, <2>3 DEF WaitEnds, At, Works
    <3> HIDE DEF row
    <3> QED BY <2>1, <2>3, <3>1, <3>2, TickTurns
  <2> QED BY <1>9, <2>2, <2>3 DEF WaitEnds
<1>10. CASE TakePlan(t)
  <2> DEFINE plan_ == call[tick[t].call].plan
  <2>1. /\ tick[t].pc = "take" /\ goal.tasks = <<>>
        /\ UNCHANGED <<goal, service, lock, planning, call, alive, registry, stopping, stops>>
    BY <1>10 DEF TakePlan, At, StillWants
  <2>2. tick' = [tick EXCEPT ![t] = IF plan_ = Nothing THEN [AtRest EXCEPT !.pc = "fail"]
                                    ELSE [AtRest EXCEPT !.pc = "admit", !.left = plan_.rows]]
    BY <1>10 DEF TakePlan
  <2>3. GoalInv' /\ PlansInv' BY <1>1, <2>1 DEF GoalInv, PlansInv
  <2>4. CASE plan_ = Nothing
    <3> DEFINE row == [AtRest EXCEPT !.pc = "fail"]
    <3>1. row \in TickRow /\ row.pc = "fail" BY <1>2 DEF TickRow
    <3>2. tick' = [tick EXCEPT ![t] = row] BY <2>2, <2>4
    <3> HIDE DEF row
    <3> QED BY <1>1, <1>3, <2>1, <2>3, <3>1, <3>2, TickMoves
  <2>5. CASE plan_ # Nothing
    <3>1. tick[t].call \in Call BY <1>1, <2>1 DEF Works
    <3>2. plan_ \in Draft /\ ValidPlan(plan_) BY <1>1, <2>5, <3>1 DEF PlansInv, CallRow
    <3> HIDE DEF plan_
    <3>3. plan_.rows \in Seq(Row) /\ Distinct(plan_.rows) BY <3>2, ValidRows
    <3> DEFINE row == [AtRest EXCEPT !.pc = "admit", !.left = plan_.rows]
    <3>4. row \in TickRow /\ row.pc = "admit" /\ row.left = plan_.rows BY <1>2, <3>3 DEF TickRow
    <3>5. tick' = [tick EXCEPT ![t] = row] BY <2>2, <2>5
    <3> HIDE DEF row
    <3>6. OneOf(goal'.tasks, row.left) BY <2>1, <3>3, <3>4 DEF OneOf
    <3> QED BY <1>1, <1>3, <2>1, <2>3, <3>4, <3>5, <3>6, TickMoves
  <2> QED BY <2>4, <2>5
<1>11. CASE FailPlanning(t)
  <2>1. tick[t].pc = "fail" /\ Leave(t) /\ UNCHANGED <<service, planning, call, alive, registry, stopping, stops>>
    BY <1>11 DEF FailPlanning, At
  <2>2. goal.tasks = <<>> BY <1>1, <2>1 DEF Works
  <2>3. CASE goal' = goal
    <3>1. GoalInv' /\ PlansInv' BY <1>1, <2>1, <2>3 DEF GoalInv, PlansInv
    <3> QED BY <1>1, <1>2, <1>3, <2>1, <2>3, <3>1, TickMoves DEF Leave
  <2>4. CASE goal' = [goal EXCEPT !.state = "failed", !.misplanned = TRUE]
    <3>1. goal' \in GoalRow /\ goal'.state = "failed" /\ goal'.tasks = <<>>
      BY <1>1, <2>2, <2>4 DEF GoalRow, Ended
    <3>2. GoalInv' /\ PlansInv' BY <1>1, <2>1, <3>1 DEF GoalInv, PlansInv, Distinct
    <3> QED BY <1>1, <1>2, <1>3, <2>1, <3>1, <3>2, TickMoves DEF Leave
  <2> QED BY <1>11, <2>3, <2>4 DEF FailPlanning
<1>12. CASE Admit(t)
  <2> DEFINE left == tick[t].left
             trow == [tick[t] EXCEPT !.left = Tail(left)]
  <2>1. /\ tick[t].pc = "admit" /\ left # <<>> /\ goal.state # "failed"
        /\ goal' = [goal EXCEPT !.state = "running", !.tasks = Append(@, Head(left))]
        /\ UNCHANGED <<service, lock, planning, call, alive, registry, stopping, stops>>
    BY <1>12 DEF Admit, At
  <2>2. tick' = [tick EXCEPT ![t] = trow] BY <1>12 DEF Admit
  <2>3. left \in Seq(Row) /\ OneOf(goal.tasks, left) /\ goal.tasks \in Seq(Row)
    BY <1>1, <2>1 DEF TickRow, Works, GoalRow
  <2>4. Tail(left) \in Seq(Row) /\ Head(left) \in Row BY <2>1, <2>3
  <2>5. trow \in TickRow /\ trow.pc = "admit" /\ trow.left = Tail(left)
    <3> HIDE DEF left
    <3> QED BY <1>1, <2>1, <2>4 DEF TickRow
  <2> HIDE DEF left, trow
  <2>6. goal' \in GoalRow /\ goal'.tasks = Append(goal.tasks, Head(left)) /\ goal'.misplanned = goal.misplanned
    <3>1. Append(goal.tasks, Head(left)) \in Seq(Row) BY <2>3, <2>4
    <3> QED BY <1>1, <2>1, <3>1 DEF GoalRow
  <2>7. OneOf(goal'.tasks, Tail(left)) /\ Distinct(goal'.tasks)
    BY <1>1, <2>1, <2>3, <2>6, AdmitOne DEF GoalInv
  <2>8. ~goal.misplanned BY <1>1, <2>1 DEF GoalInv
  <2>9. GoalInv' /\ PlansInv' BY <1>1, <2>1, <2>6, <2>7, <2>8 DEF GoalInv, PlansInv
  <2> QED BY <1>1, <1>3, <2>1, <2>2, <2>5, <2>6, <2>7, <2>9, TickMoves
<1> QED BY <1>4, <1>5, <1>6, <1>7, <1>8, <1>9, <1>10, <1>11, <1>12 DEF TickStep

LEMMA PlanStep == PlanInv /\ (PlanNext \/ UNCHANGED pvars) => PlanInv'
<1> SUFFICES ASSUME PlanInv, PlanNext \/ UNCHANGED pvars PROVE PlanInv' OBVIOUS
<1>1. CASE UNCHANGED pvars
  BY <1>1 DEF pvars, PlanInv, PlanTypes, PlansInv, GoalInv, Works
<1>2. CASE PlanNext BY <1>2, TickSteps, CallSteps, ServiceSteps DEF PlanNext
<1> QED BY <1>1, <1>2

LEMMA PlanInvariant == GoalSpec => []PlanInv
<1>1. GoalInit => PlanInv BY PlanInit_Inv DEF GoalInit
<1>2. PlanInv /\ [GoalNext]_gvars => PlanInv' BY PlanStep DEF GoalNext, gvars
<1> QED BY <1>1, <1>2, PTL DEF GoalSpec

\* Goal, tickers, calls and registry keep their shape.
THEOREM PlanTypeCorrect == GoalSpec => []PlanTypeOK
<1>1. PlanInv => PlanTypeOK
  BY DEF PlanInv, PlanTypes, PlanTypeOK, GoalRow, TickRow, CallRow
<1> QED BY <1>1, PlanInvariant, PTL

\* process_goal: however many tickers wait for leads, cancel, shut down and crash, the
\* tasks of a goal are those of one answer, each once, and a planned goal is not failed
\* for want of a plan.
THEOREM GoalsArePlannedOnce == GoalSpec => []PlannedOnce
<1>1. PlanInv => PlannedOnce BY DEF PlanInv, GoalInv, Distinct, PlannedOnce
<1> QED BY <1>1, PlanInvariant, PTL
=================================================================================
