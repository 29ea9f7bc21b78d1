------------------------------- MODULE Request -------------------------------
(* A request and its inputs, from the command line of a client to the worker     *)
(* (hermes-collab-request.py, input_manifest.py, artifact_handoff.py, the submit *)
(* and the dispatch of app_service.py).  The client looks at a file, hashes it,  *)
(* posts what it found and waits; the service opens a goal, perhaps after the    *)
(* client has given up and asked again, and much later copies the file to where  *)
(* the worker reads it.  The files belong to others, who change them meanwhile.  *)
EXTENDS Integers, Sequences

CONSTANTS
  Key, NoKey,   \* the idempotency keys a client uses; none: the service makes one up
  Content, NoFile, \* what a file may hold; no file
  Original,     \* what the user's file holds first
  Size,         \* the size of each content
  Kind,         \* how inputs are given: "manifest", "pin", "snapshot"
  LeadTries,    \* MAX_LEAD_ATTEMPTS_PER_DECISION
  MaxOpens, MaxSurprises  \* bounds: opens of the client; lost messages, crashes, changes

ASSUME RequestAssumption ==
  /\ NoKey \notin Key /\ NoFile \notin Content /\ Original \in Content
  /\ Size \in [Content -> Nat] /\ Kind \subseteq {"manifest", "pin", "snapshot"}
  /\ LeadTries \in Nat \ {0} /\ MaxOpens \in Nat /\ MaxSurprises \in Nat

VARIABLES
  file,        \* what the user's file holds
  snapshots,   \* what the snapshots hold, each in a directory of its own
  client,      \* the command that runs: where it is, what it asks, the goal it was told
  posts,       \* requests on their way to the service
  goals,       \* what the service has opened
  opens, surprises
qvars == <<file, snapshots, client, posts, goals, opens, surprises>>

\* What a client asks for: the place is 0 for the user's file, n for the n-th snapshot.
NoBody == [kind |-> "none", place |-> 0, size |-> 0, sha |-> NoFile]
NoGoal == 0
Idle == [pc |-> "idle", key |-> NoKey, body |-> NoBody, told |-> NoGoal]

\* No row of the lead; a row that it has tried n times.
NoRow == -1
NewGoal(post) ==
  [key |-> post.key, body |-> post.body, task |-> "queued",
   inputs |-> NoFile, handed |-> "none", lead |-> NoRow, human |-> FALSE]

RequestInit ==
  /\ file = Original /\ snapshots = <<>> /\ client = Idle
  /\ posts = {} /\ goals = <<>> /\ opens = 0 /\ surprises = 0

Surprise == surprises < MaxSurprises /\ surprises' = surprises + 1

----------------------------------------------------------------------------
(* open.                                                                       *)

Found(place) == IF place = 0 THEN file ELSE snapshots[place]
\* A regular file, inside the root, no link.
Selectable == file # NoFile
\* A backup of a database, or the prefix of a file that there is now.
TakeSnapshot == snapshots' = Append(snapshots, file)

\* The size of a file of a manifest is taken before any file is hashed.
SelectInput(key, kind) ==
  /\ client.pc \in {"idle", "over"} /\ opens < MaxOpens /\ Selectable
  /\ opens' = opens + 1
  /\ IF kind = "snapshot" THEN TakeSnapshot ELSE UNCHANGED snapshots
  /\ client' = [Idle EXCEPT !.pc = "selected", !.key = key, !.body =
                  [NoBody EXCEPT !.kind = kind,
                     !.place = IF kind = "snapshot" THEN Len(snapshots') ELSE 0,
                     !.size = IF kind = "manifest" THEN Size[file] ELSE 0]]
  /\ UNCHANGED <<file, posts, goals, surprises>>

\* hash_file, then the post.
HashAndPost ==
  /\ client.pc = "selected" /\ Found(client.body.place) # NoFile
  /\ LET body == [client.body EXCEPT !.sha = Found(client.body.place)] IN
       /\ client' = [client EXCEPT !.pc = "posted", !.body = body]
       /\ posts' = posts \cup {[n |-> opens, key |-> client.key, body |-> body]}
  /\ UNCHANGED <<file, snapshots, goals, opens, surprises>>

\* The file has gone: nothing is posted.
InputGone ==
  /\ client.pc = "selected" /\ Found(client.body.place) = NoFile
  /\ client' = Idle
  /\ UNCHANGED <<file, snapshots, posts, goals, opens, surprises>>

\* The client does not get its answer: the post is lost, or is still on its way, or
\* has been served.  It asks again, with the same key or another.
GiveUp ==
  /\ client.pc = "posted" /\ Surprise
  /\ client' = Idle
  /\ posts' \in {posts, {}}
  /\ UNCHANGED <<file, snapshots, goals, opens>>

----------------------------------------------------------------------------
(* submit.                                                                     *)

Answer(post, told) ==
  client' = IF client.pc = "posted" /\ post.n = opens
            THEN IF told = NoGoal THEN Idle ELSE [client EXCEPT !.pc = "over", !.told = told]
            ELSE client

\* A request that the service cannot serve leaves no goal and binds no key.
RefusePost(post) ==
  /\ post \in posts /\ posts' = posts \ {post}
  /\ Answer(post, NoGoal)
  /\ UNCHANGED <<file, snapshots, goals, opens, surprises>>

\* A key the client has not given is a fresh one.
Bound(key) == {i \in DOMAIN goals : key # NoKey /\ goals[i].key = key}

OpenGoal(post) ==
  /\ post \in posts /\ Bound(post.key) = {}
  /\ posts' = posts \ {post}
  /\ goals' = Append(goals, NewGoal(post))
  /\ Answer(post, Len(goals'))
  /\ UNCHANGED <<file, snapshots, opens, surprises>>

\* _submit_content_fingerprint: the paths and the hashes are part of the content.
Conflict(post, i) == goals[i].body # post.body

\* A known key: the goal it is bound to, or a refusal that does not name it.
KnownKey(post) ==
  /\ post \in posts /\ posts' = posts \ {post}
  /\ \E i \in Bound(post.key) : Answer(post, IF Conflict(post, i) THEN NoGoal ELSE i)
  /\ UNCHANGED <<file, snapshots, goals, opens, surprises>>

----------------------------------------------------------------------------
(* Dispatch: the artifacts of the task before, then the manifest, then the start. *)

Put(i, g) == goals' = [goals EXCEPT ![i] = g]
Aside == UNCHANGED <<file, snapshots, client, posts, opens>>
Quietly == Aside /\ UNCHANGED surprises

\* A file that is there already must be equal.
MayHandOff(g) == g.handed # "changed"
\* One dispatch at a time, until start_run.
HandOff(i) ==
  /\ goals[i].task = "queued" /\ \A j \in DOMAIN goals : goals[j].task # "handed"
  /\ Put(i, IF MayHandOff(goals[i]) THEN [goals[i] EXCEPT !.task = "handed", !.handed = "same"]
            ELSE [goals[i] EXCEPT !.task = "failed"])
  /\ Quietly

\* The copy has the size and the hash of the entry.
CopyAgrees(body) == file = body.sha /\ Size[file] = body.size
\* Mutant: what is there already is taken as it is.
MayStageAgain(g) == g.inputs # NoFile \/ (Selectable /\ CopyAgrees(g.body))
\* The path is resolved again, and the destination must not exist.
MayStage(g) == g.inputs = NoFile /\ Selectable /\ CopyAgrees(g.body)

\* The copy is made beside its destination and renamed.
StageManifest(i) ==
  /\ goals[i].task = "handed"
  /\ Put(i, IF goals[i].body.kind # "manifest" THEN [goals[i] EXCEPT !.task = "staged"]
            ELSE IF ~MayStage(goals[i]) THEN [goals[i] EXCEPT !.task = "failed"]
            ELSE [goals[i] EXCEPT !.task = "staged", !.inputs = IF @ = NoFile THEN file ELSE @])
  /\ Quietly

\* start_run is given the names of the staged files; pins it only mentions.
StartRun(i) ==
  /\ goals[i].task = "staged"
  /\ \E to \in {"running", "failed"} : Put(i, [goals[i] EXCEPT !.task = to])
  /\ Quietly

\* Dispatch starts again after a crash; what it has copied is still there.
Restart ==
  /\ Surprise
  /\ goals' = [i \in DOMAIN goals |->
                 IF goals[i].task \in {"handed", "staged"} THEN [goals[i] EXCEPT !.task = "queued"]
                 ELSE goals[i]]
  /\ Aside

\* A failed task is queued again (a rework, a "continue").
Requeue(i) ==
  /\ goals[i].task = "failed" /\ Surprise
  /\ Put(i, [goals[i] EXCEPT !.task = "queued"]) /\ Aside

----------------------------------------------------------------------------
(* The worker and its decisions.                                               *)

\* A worker writes what it likes in its workspace, its inputs too.
WorkerWrites(i) ==
  /\ goals[i].task = "running" /\ Surprise
  /\ \/ \E c \in Content : /\ goals[i].inputs \notin {NoFile, c}
                           /\ Put(i, [goals[i] EXCEPT !.inputs = c])
     \/ Put(i, [goals[i] EXCEPT !.handed = "changed"])
  /\ Aside

\* A permission or a review is the lead's, a question is a human's.  A task has one
\* decision at a time, but another task of the goal runs beside this one.
Ask(i) ==
  /\ goals[i].task = "running"
  /\ \/ goals[i].lead = NoRow /\ Put(i, [goals[i] EXCEPT !.lead = 0])
     \/ ~goals[i].human /\ Put(i, [goals[i] EXCEPT !.human = TRUE])
  /\ Quietly

\* lead_will_decide.
LeadWillDecide(g) == g.lead \in 0..(LeadTries - 1)

\* An error that cannot pass by itself uses up the attempts at once.
LeadFails(i) == \E n \in {goals[i].lead + 1, LeadTries} : Put(i, [goals[i] EXCEPT !.lead = n])
LeadDecides(i) == Put(i, [goals[i] EXCEPT !.lead = NoRow])

LeadTick(i) ==
  /\ LeadWillDecide(goals[i]) /\ (LeadFails(i) \/ LeadDecides(i))
  /\ Quietly

\* Somebody decides from another terminal; a row that is no longer there is refused.
Decide(i) ==
  /\ \/ goals[i].lead # NoRow /\ Put(i, [goals[i] EXCEPT !.lead = NoRow])
     \/ goals[i].human /\ Put(i, [goals[i] EXCEPT !.human = FALSE])
  /\ Quietly

Pending(g) == g.human \/ g.lead # NoRow
WorkerEnds(i) ==
  /\ goals[i].task = "running" /\ ~Pending(goals[i])
  /\ \/ Put(i, [goals[i] EXCEPT !.task = "succeeded", !.inputs = NoFile, !.handed = "none"])
     \/ Put(i, [goals[i] EXCEPT !.task = "failed"])
  /\ Quietly

----------------------------------------------------------------------------
(* wait.                                                                       *)

\* What the status of a goal says: each pending row is the lead's or a human's.
Status(g) ==
  [over |-> g.task \in {"succeeded", "failed"},
   lead |-> LeadWillDecide(g),
   human |-> g.human \/ (g.lead # NoRow /\ ~LeadWillDecide(g))]

\* Mutant: one row of the lead and the client keeps polling.
NeedHumanUnlessLead(status) == status.human /\ ~status.lead
\* need_human_view: a mixture shows the human rows.
NeedHuman(status) == status.human

StartWait ==
  /\ client.pc = "over" /\ client' = [client EXCEPT !.pc = "polling"]
  /\ UNCHANGED <<file, snapshots, posts, goals, opens, surprises>>

\* The command exits: the goal is over, or a human is asked.
Poll ==
  /\ client.pc = "polling"
  /\ LET status == Status(goals[client.told]) IN status.over \/ NeedHuman(status)
  /\ client' = [client EXCEPT !.pc = "over"]
  /\ UNCHANGED <<file, snapshots, posts, goals, opens, surprises>>

\* The observation ends, or the service does not answer one poll.
StopWaiting ==
  /\ client.pc = "polling" /\ client' = [client EXCEPT !.pc = "over"]
  /\ UNCHANGED <<file, snapshots, posts, goals, opens, surprises>>

----------------------------------------------------------------------------
(* The files of others.                                                        *)

FileChanges ==
  /\ Surprise /\ \E c \in (Content \cup {NoFile}) \ {file} : file' = c
  /\ UNCHANGED <<snapshots, client, posts, goals, opens>>

\* snapshots-clean looks at the age of a snapshot, not at who uses it.
CleanSnapshots ==
  /\ Surprise /\ \E n \in DOMAIN snapshots :
       snapshots' = [m \in DOMAIN snapshots |-> IF m <= n THEN NoFile ELSE snapshots[m]]
  /\ UNCHANGED <<file, client, posts, goals, opens>>

DispatchStep(i) == HandOff(i) \/ StageManifest(i) \/ StartRun(i) \/ Requeue(i)
WorkerStep(i) == WorkerWrites(i) \/ Ask(i) \/ WorkerEnds(i)

RequestNext ==
  \/ \E key \in Key \cup {NoKey}, kind \in Kind : SelectInput(key, kind)
  \/ HashAndPost \/ InputGone \/ GiveUp
  \/ \E post \in posts : RefusePost(post) \/ OpenGoal(post) \/ KnownKey(post)
  \/ \E i \in DOMAIN goals : DispatchStep(i) \/ WorkerStep(i) \/ LeadTick(i) \/ Decide(i)
  \/ Restart \/ StartWait \/ Poll \/ StopWaiting
  \/ FileChanges \/ CleanSnapshots

----------------------------------------------------------------------------
(* Properties.                                                                 *)

\* Every variable has the shape above.
RequestTypeOK ==
  /\ file \in Content \cup {NoFile} /\ client.told \in 0..Len(goals)
  /\ client.pc \in {"idle", "selected", "posted", "polling", "over"}
  /\ client.pc \in {"polling", "over"} => client.told # NoGoal
  /\ \A i \in DOMAIN goals : goals[i].lead \in -1..LeadTries /\ goals[i].inputs \in Content \cup {NoFile}

\* A worker starts on what its client hashed, and a client is told of the goal it
\* asked for: late posts, opens that are repeated with one key, files that change
\* between the look, the hash and the copy, inputs that an earlier worker has
\* overwritten, crashes between the copy and the start
\* (input_manifest.py:255-322, durable_api.py:1088-1127, artifact_handoff.py:327-338).
RunsOnWhatWasOpened ==
  /\ \A i, j \in DOMAIN goals : goals[i].key = goals[j].key /\ goals[i].key # NoKey => i = j
  /\ client.told # NoGoal => goals[client.told].key = client.key /\ goals[client.told].body = client.body
  /\ \A i \in DOMAIN goals : goals[i].task = "staged" =>
       /\ goals[i].handed = "same"
       /\ goals[i].body.kind = "manifest" => goals[i].inputs = goals[i].body.sha

\* A client that waits does not wait beside a decision: the lead decides it or has
\* failed its attempts, and what a human must decide is told although the lead has
\* rows of its own, again and again (hermes-collab-request.py:1092-1110).
BesideHuman == client.pc = "polling" /\ goals[client.told].human
BesideLead == client.pc = "polling" /\ goals[client.told].lead # NoRow
HumanIsTold == (BesideHuman ~> ~BesideHuman) /\ (BesideLead ~> ~BesideLead)
=============================================================================
