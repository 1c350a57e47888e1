------------------------------ MODULE LocalLab ------------------------------
(***************************************************************************)
(* The local lab: an emulator container, its network, the Lambda runtimes  *)
(* it spawns and the services provisioned in it, all owned by a manifest   *)
(* on disk.  A command opens a session under a lock file, works in small   *)
(* steps each of which may fail, and may be killed between any two.  What  *)
(* is not proved to be owned is refused, never adopted and never removed.  *)
(***************************************************************************)
EXTENDS Integers, Sequences, FiniteSets, SequencesExt

CONSTANTS
  Sessions,         \* operators at work at once
  Runtimes,         \* Lambda runtime containers at once
  Kinds,            \* the kinds of service resources of the profile
  Nothing,
  MaxMishaps,       \* bounds steps that fail, kills, deaths and foreign resources
  MaxOwners         \* bounds the manifests ever created

\* A manifest: the lab's owner, how far the lab is, whether it was provisioned once.
Manifests ==
  [owner : Nat, status : {"starting", "provisioning", "ready", "resetting"}, marked : BOOLEAN]

ASSUME LabAssumption ==
  /\ IsFiniteSet(Sessions) /\ IsFiniteSet(Runtimes)
  /\ Kinds \subseteq {"bucket", "table", "bus", "queue", "role", "log", "function",
                      "rule", "mapping", "group", "schedule"}
  /\ MaxMishaps \in Nat /\ MaxOwners \in Nat \ {0}
  /\ Nothing \notin Nat \cup Sessions \cup Manifests /\ "stale" \notin Sessions

VARIABLES
  lock,         \* the lock file: Nothing, the session that holds it, or "stale"
  disk,         \* the manifest on disk: Nothing or [owner, status, marked]
  routing,      \* the routing file: Nothing or its owner
  emulator,     \* the emulator container: [state, owner]
  network,      \* the lab network: Nothing or its owner
  runtime,      \* the runtime containers, as the emulator
  service,      \* how much of each kind exists in the emulator
  session,      \* each operator's command and where it stands
  owners, mishaps, leaving

labVars == <<lock, disk, routing, emulator, network, runtime, service, session,
             owners, mishaps, leaving>>
files == <<lock, disk, routing>>
docker == <<emulator, network, runtime>>
world == <<owners, mishaps, leaving>>
-----------------------------------------------------------------------------
Foreign == 0
Gone == [state |-> "none", owner |-> Foreign]
Closed == [pc |-> "closed", op |-> Nothing, m |-> Nothing, persisted |-> FALSE, todo |-> {},
           down |-> FALSE, again |-> FALSE]

CreateOrder == <<"bucket", "table", "bus", "queue", "role", "log", "function",
                 "rule", "mapping", "group", "schedule">>
DeleteOrder == <<"schedule", "mapping", "rule", "function", "log", "queue",
                 "group", "bucket", "bus", "table", "role">>
FirstOf(order, S) == order[Min({i \in 1 .. Len(order) : order[i] \in S})]

\* The states a resource goes through while it is created: a bucket has no tags at
\* first, a log group no retention, a role no policy, a rule no target.
Stages(k) ==
  CASE k = "bucket" -> <<"untagged", "part", "whole">>
    [] k \in {"role", "log", "function", "rule"} -> <<"part", "whole">>
    [] OTHER -> <<"whole">>
Undressed == {"rule", "role"}     \* deleted in two calls, the first of which undresses it

\* A namesake somebody else made, before or after a session found the names free.
Strangers == {"foreign", "late"}
\* The kinds whose creation does not fail where a namesake is.
Upserted == {"bucket", "queue", "rule"}
ChildOf == [bus |-> "rule", function |-> "mapping", group |-> "schedule"]

LabInit ==
  /\ lock = Nothing /\ disk = Nothing /\ routing = Nothing
  /\ emulator = Gone /\ network = Nothing
  /\ runtime = [r \in Runtimes |-> Gone]
  /\ service = [k \in Kinds |-> "none"]
  /\ session = [s \in Sessions |-> Closed]
  /\ owners = 0 /\ mishaps = 0 /\ leaving = FALSE
-----------------------------------------------------------------------------
(* What the inspections accept.                                             *)

Exists(c) == c.state # "none"
Present(m) == {r \in Runtimes : Exists(runtime[r])}
OnDisk(m) == disk # Nothing /\ disk.owner = m.owner

\* Seeded fault: a runtime of the lab's name is taken for one of its own.
Proven_ByName(m) ==
  /\ Exists(emulator) => emulator.owner = m.owner
  /\ network \in {Nothing, m.owner}

\* inspect: every container, runtime and network of the lab's name is the manifest's.
Proven(m) ==
  /\ Exists(emulator) => emulator.owner = m.owner
  /\ network \in {Nothing, m.owner}
  /\ \A r \in Present(m) : runtime[r].owner = m.owner
Ready(m) == Proven(m) /\ emulator.state = "running"

\* inspectServices: a resource is of the lab by its tags, and as the plan has it; one
\* that is about to be deleted may have lost its policy or its target already.
Has(k) == service[k] # "none"
Tagged(k) == service[k] \notin Strangers \cup {"untagged"}
Dressed(k, complete) == service[k] = "whole" \/ (k \in Undressed /\ ~complete)
WithChildren == \A k \in Kinds \cap DOMAIN ChildOf :
                  Has(k) /\ ChildOf[k] \in Kinds => Has(ChildOf[k])
\* How strict the inspection is depends on what is asked and on the status.
Accepts(m, mode) ==
  LET strict == mode = "ready" \/ m.status \in {"ready", "resetting"}
      complete == mode = "ready" \/ m.status = "ready"
  IN  /\ emulator.state = "running"
      /\ \A k \in Kinds : Has(k) => /\ mode # "vacant" /\ Tagged(k)
                                    /\ strict => Dressed(k, complete)
      /\ complete => WithChildren
      /\ mode = "ready" => \A k \in Kinds : Has(k)
-----------------------------------------------------------------------------
(* What a session checks before each of its steps; a step whose check fails *)
(* throws.  An inspection waits for a runtime that is already being removed.*)

Waits == {"up.inspect", "up.ready", "begin", "down.begin", "stop", "list", "rest",
          "down.container", "down.network", "down.final"}
Holds(s) ==
  LET x == session[s]
      m == x.m
  IN CASE x.pc = "up.inspect" ->
            /\ Proven(m)
            /\ ~Exists(emulator) => network = Nothing /\ Present(m) = {}
       [] x.pc = "up.save" -> x.persisted => OnDisk(m)
       [] x.pc = "up.network" -> network \in {Nothing, m.owner}
       [] x.pc = "up.create" -> Exists(emulator) => emulator.owner = m.owner
       [] x.pc = "up.start" -> Exists(emulator) /\ emulator.owner = m.owner
       [] x.pc = "up.ready" -> Ready(m)
       [] x.pc = "begin" ->
            /\ x.op = "verify" => Ready(m) /\ m.status = "ready" /\ m.marked
            /\ x.op # "verify" => Ready(m)
       [] x.pc = "verify" -> Ready(m) /\ Present(m) # {}
       [] x.pc = "prove" -> Ready(m)
       [] x.pc = "provision" -> m.status = "starting" /\ OnDisk(m) /\ Ready(m)
       [] x.pc \in {"provision.unroute", "reset.unroute", "down.unroute", "route"} ->
            routing \in {Nothing, m.owner}
       [] x.pc = "vacant" -> Accepts(m, "vacant")
       [] x.pc = "create" ->
            /\ emulator.state = "running"
            /\ x.todo # {} => LET k == FirstOf(CreateOrder, x.todo) IN
                               service[k] \notin Strangers \/ k \in Upserted
       [] x.pc = "complete" -> Accepts(m, "ready")
       [] x.pc \in {"provision.save", "ready.save", "mark", "reset.save", "fresh.save"} ->
            OnDisk(m)
       [] x.pc = "reset" -> OnDisk(m) /\ Ready(m)
       [] x.pc = "owned" -> Accepts(m, "reset")
       [] x.pc = "delete" -> emulator.state = "running"
       [] x.pc = "emptied" -> Accepts(m, "vacant")
       [] x.pc = "down.begin" -> OnDisk(m) /\ Proven(m)
       [] x.pc = "stop" -> Proven(m)
       [] x.pc = "list" -> Proven(m) /\ \A r \in Runtimes : runtime[r].state # "running"
       [] x.pc = "rest" -> Proven(m) /\ Present(m) = {}
       [] x.pc \in {"down.stop", "stopping", "removing"} -> TRUE
       [] x.pc = "down.container" -> Proven(m) /\ emulator.state # "running"
       [] x.pc = "down.network" -> Proven(m) /\ ~Exists(emulator) /\ Present(m) = {}
       [] x.pc = "down.final" ->
            Proven(m) /\ ~Exists(emulator) /\ Present(m) = {} /\ network = Nothing
       [] x.pc = "forget" -> OnDisk(m)
       [] OTHER -> FALSE

Settled == \A r \in Runtimes : runtime[r].state # "removing"
At(s, pc) == session[s].pc = pc /\ Holds(s) /\ (pc \in Waits => Settled)
MoveTo(s, pc) == session' = [session EXCEPT ![s].pc = pc]
Knowing(s, pc, m) == session' = [session EXCEPT ![s].pc = pc, ![s].m = m]
Listing(s, pc, S) == session' = [session EXCEPT ![s].pc = pc, ![s].todo = S]
Strike(s, pc, e) ==
  session' = [session EXCEPT ![s].pc = pc, ![s].todo = session[s].todo \ {e}]

TearDown(s) == session' = [session EXCEPT ![s].pc = "down.begin", ![s].down = TRUE]
Close(s) == session' = [session EXCEPT ![s] = Closed] /\ lock' = Nothing
SaveManifest(s) == disk' = session[s].m
-----------------------------------------------------------------------------
(* openLab                                                                  *)

FirstStep(op) ==
  CASE op = "up" -> "up.inspect" [] op = "down" -> "down.begin" [] OTHER -> "begin"

\* Seeded fault: the lock file is opened whether it exists or not.
Unlocked_Always == TRUE
Unlocked == lock = Nothing

\* The lock is created or the command is refused and changes nothing; only up makes a
\* manifest, and only where there is none.  It is written later, by up itself.
Open(s, op) ==
  /\ session[s].pc = "closed" /\ Unlocked
  /\ disk # Nothing \/ (op = "up" /\ owners < MaxOwners)
  /\ LET fresh == [owner |-> owners + 1, status |-> "starting", marked |-> FALSE]
     IN  session' = [session EXCEPT ![s] =
           [Closed EXCEPT !.pc = FirstStep(op), !.op = op, !.down = op = "down",
                          !.persisted = disk # Nothing,
                          !.m = IF disk = Nothing THEN fresh ELSE disk]]
  /\ owners' = IF disk = Nothing THEN owners + 1 ELSE owners
  /\ lock' = s
  /\ UNCHANGED <<disk, routing, docker, service, mishaps, leaving>>

\* An operator removes the lock of a session known to be dead.
RemoveStaleLock ==
  /\ lock = "stale" /\ lock' = Nothing
  /\ UNCHANGED <<disk, routing, docker, service, session, world>>
-----------------------------------------------------------------------------
(* up: the manifest first, then docker compose.                             *)

UpInspect(s) ==
  /\ At(s, "up.inspect") /\ MoveTo(s, "up.save")
  /\ UNCHANGED <<files, docker, service, world>>
UpSave(s) ==
  /\ At(s, "up.save") /\ SaveManifest(s)
  /\ session' = [session EXCEPT ![s].pc = "up.network", ![s].persisted = TRUE]
  /\ UNCHANGED <<lock, routing, docker, service, world>>
UpNetwork(s) ==
  /\ At(s, "up.network") /\ network' = session[s].m.owner /\ MoveTo(s, "up.create")
  /\ UNCHANGED <<files, emulator, runtime, service, world>>
UpCreate(s) ==
  /\ At(s, "up.create") /\ MoveTo(s, "up.start")
  /\ emulator' = IF Exists(emulator) THEN emulator
                 ELSE [state |-> "created", owner |-> session[s].m.owner]
  /\ UNCHANGED <<files, network, runtime, service, world>>
\* The emulator keeps nothing: a start from rest finds no service.
UpStart(s) ==
  /\ At(s, "up.start") /\ MoveTo(s, "up.ready")
  /\ emulator' = [emulator EXCEPT !.state = "running"]
  /\ UNCHANGED <<files, network, runtime, service, world>>
UpReady(s) ==
  /\ At(s, "up.ready") /\ Close(s)
  /\ UNCHANGED <<disk, routing, docker, service, world>>

Up(s) == UpInspect(s) \/ UpSave(s) \/ UpNetwork(s) \/ UpCreate(s) \/ UpStart(s) \/ UpReady(s)
-----------------------------------------------------------------------------
(* provision                                                                *)

\* The script waits for the emulator before any of its commands but up and down.
BeginCommand(s) ==
  /\ At(s, "begin") /\ MoveTo(s, session[s].op)
  /\ UNCHANGED <<files, docker, service, world>>
Provision(s) ==
  /\ At(s, "provision") /\ MoveTo(s, "provision.unroute")
  /\ UNCHANGED <<files, docker, service, world>>
Unroute(s, here, there) ==
  /\ At(s, here) /\ routing' = Nothing /\ MoveTo(s, there)
  /\ UNCHANGED <<lock, disk, docker, service, world>>
Vacant(s) ==
  /\ At(s, "vacant")
  /\ Knowing(s, "provision.save", [session[s].m EXCEPT !.status = "provisioning"])
  /\ UNCHANGED <<files, docker, service, world>>
ProvisionSave(s) ==
  /\ At(s, "provision.save") /\ SaveManifest(s) /\ Listing(s, "create", Kinds)
  /\ UNCHANGED <<lock, routing, docker, service, world>>
\* What the next call makes of a resource.  CreateBucket and CreateQueue answer for a
\* namesake as if they had made it, and PutRule updates it: the bucket is tagged next,
\* the queue is not, and a rule may keep its tags.
Adopted == [bucket |-> {"part"}, queue |-> {"untagged"}, rule |-> {"part", "untagged"}]
Builds(k) ==
  IF service[k] \in Strangers THEN Adopted[k]
  ELSE CASE service[k] = "untagged" /\ k # "bucket" -> {"untagged"}
         [] service[k] = "none" -> {Stages(k)[1]}
         [] OTHER -> {Stages(k)[i + 1] : i \in {j \in 1 .. Len(Stages(k)) - 1 :
                                                  Stages(k)[j] = service[k]}}
Create(s) ==
  /\ At(s, "create") /\ session[s].todo # {}
  /\ LET k == FirstOf(CreateOrder, session[s].todo) IN
     \E stage \in Builds(k) :
       /\ service' = [service EXCEPT ![k] = stage]
       /\ IF stage \in {"whole", service[k]} THEN Strike(s, "create", k)
          ELSE UNCHANGED session
  /\ UNCHANGED <<files, docker, world>>
Created(s) ==
  /\ At(s, "create") /\ session[s].todo = {} /\ MoveTo(s, "complete")
  /\ UNCHANGED <<files, docker, service, world>>
Complete(s) ==
  /\ At(s, "complete")
  /\ Knowing(s, "ready.save", [session[s].m EXCEPT !.status = "ready"])
  /\ UNCHANGED <<files, docker, service, world>>
ReadySave(s) ==
  /\ At(s, "ready.save") /\ SaveManifest(s) /\ MoveTo(s, "route")
  /\ UNCHANGED <<lock, routing, docker, service, world>>
WriteRouting(s) ==
  /\ At(s, "route") /\ routing' = session[s].m.owner
  /\ Knowing(s, "mark", [session[s].m EXCEPT !.marked = TRUE])
  /\ UNCHANGED <<lock, disk, docker, service, world>>
\* The versions a verification asks for; it ends with a teardown.
Mark(s) ==
  /\ At(s, "mark") /\ SaveManifest(s)
  /\ IF session[s].op = "verify" THEN TearDown(s) /\ UNCHANGED lock ELSE Close(s)
  /\ UNCHANGED <<routing, docker, service, world>>

ProvisionSteps(s) ==
  \/ Provision(s) \/ Unroute(s, "provision.unroute", "vacant") \/ Vacant(s)
  \/ ProvisionSave(s) \/ Create(s) \/ Created(s) \/ Complete(s) \/ ReadySave(s)
  \/ WriteRouting(s) \/ Mark(s)
-----------------------------------------------------------------------------
(* reset                                                                    *)

\* A verification runs against the provisioned lab and its warm runtimes first; the
\* report application's then turns to the teardown at once.
Verified(s) ==
  /\ At(s, "verify") /\ MoveTo(s, "reset")
  /\ UNCHANGED <<files, docker, service, world>>
Proved(s) ==
  /\ At(s, "prove") /\ TearDown(s)
  /\ UNCHANGED <<files, docker, service, world>>
Reset(s) ==
  /\ At(s, "reset") /\ MoveTo(s, "owned")
  /\ UNCHANGED <<files, docker, service, world>>
Owned(s) ==
  /\ At(s, "owned")
  /\ LET m == session[s].m IN
     session' = [session EXCEPT ![s].pc = "reset.unroute",
       ![s].m.status = IF m.status = "ready" THEN "resetting" ELSE m.status,
       ![s].todo = {k \in Kinds : service[k] # "none"}]
  /\ UNCHANGED <<files, docker, service, world>>
ResetSave(s) ==
  /\ At(s, "reset.save") /\ SaveManifest(s) /\ MoveTo(s, "delete")
  /\ UNCHANGED <<lock, routing, docker, service, world>>
Delete(s) ==
  /\ At(s, "delete") /\ session[s].todo # {}
  /\ LET k == FirstOf(DeleteOrder, session[s].todo)
     IN  IF k \in Undressed /\ service[k] = "whole"
         THEN service' = [service EXCEPT ![k] = "part"] /\ UNCHANGED session
         ELSE service' = [service EXCEPT ![k] = "none"] /\ Strike(s, "delete", k)
  /\ UNCHANGED <<files, docker, world>>
Deleted(s) ==
  /\ At(s, "delete") /\ session[s].todo = {} /\ MoveTo(s, "emptied")
  /\ UNCHANGED <<files, docker, service, world>>
Emptied(s) ==
  /\ At(s, "emptied") /\ MoveTo(s, "stop")
  /\ UNCHANGED <<files, docker, service, world>>
FreshSave(s) ==
  /\ At(s, "fresh.save")
  /\ LET m == [session[s].m EXCEPT !.status = "starting", !.marked = FALSE]
     IN  /\ disk' = m
         /\ IF session[s].op = "verify" THEN Knowing(s, "provision", m) /\ UNCHANGED lock
            ELSE Close(s)
  /\ UNCHANGED <<routing, docker, service, world>>

ResetSteps(s) ==
  \/ Verified(s) \/ Proved(s) \/ Reset(s) \/ Owned(s) \/ Unroute(s, "reset.unroute", "reset.save")
  \/ ResetSave(s) \/ Delete(s) \/ Deleted(s) \/ Emptied(s) \/ FreshSave(s)
-----------------------------------------------------------------------------
(* cleanupRuntimes, for reset and for down: list and stop, list and remove, *)
(* and list again.                                                          *)

CleanupList(s, here, there, S) ==
  /\ At(s, here) /\ Listing(s, there, S)
  /\ UNCHANGED <<files, docker, service, world>>
\* A runtime that is gone by then is no failure.
StopRuntime(s) ==
  /\ At(s, "stopping")
  /\ IF session[s].todo = {} THEN MoveTo(s, "list") /\ UNCHANGED runtime
     ELSE \E r \in session[s].todo :
            /\ runtime[r].state # "removing"
            /\ runtime' = IF Exists(runtime[r])
                          THEN [runtime EXCEPT ![r].state = "exited"] ELSE runtime
            /\ Strike(s, "stopping", r)
  /\ UNCHANGED <<files, emulator, network, service, world>>
RemoveRuntime(s) ==
  /\ At(s, "removing")
  /\ IF session[s].todo = {} THEN MoveTo(s, "rest") /\ UNCHANGED runtime
     ELSE \E r \in session[s].todo :
            runtime' = [runtime EXCEPT ![r] = Gone] /\ Strike(s, "removing", r)
  /\ UNCHANGED <<files, emulator, network, service, world>>
Cleaned(s) ==
  /\ At(s, "rest") /\ MoveTo(s, IF session[s].down THEN "down.container" ELSE "fresh.save")
  /\ UNCHANGED <<files, docker, service, world>>

Cleanup(s) ==
  \/ CleanupList(s, "stop", "stopping", {r \in Runtimes : runtime[r].state = "running"})
  \/ CleanupList(s, "list", "removing", Present(session[s].m))
  \/ StopRuntime(s) \/ RemoveRuntime(s) \/ Cleaned(s)
-----------------------------------------------------------------------------
(* down: the routing, the emulator, its runtimes, the network and, last of  *)
(* all, the manifest.                                                       *)

\* Seeded fault: a teardown first waits for the emulator, as the other commands do.
DownBegin_Ready(s) ==
  /\ At(s, "down.begin") /\ emulator.state = "running" /\ MoveTo(s, "down.unroute")
  /\ UNCHANGED <<files, docker, service, world>>
DownBegin(s) ==
  /\ At(s, "down.begin") /\ MoveTo(s, "down.unroute")
  /\ UNCHANGED <<files, docker, service, world>>
DownStop(s) ==
  /\ At(s, "down.stop") /\ MoveTo(s, "stop")
  /\ IF emulator.state = "running"
     THEN /\ emulator' = [emulator EXCEPT !.state = "exited"]
          /\ service' = [k \in Kinds |-> "none"]
     ELSE UNCHANGED <<emulator, service>>
  /\ UNCHANGED <<files, network, runtime, world>>
DownContainer(s) ==
  /\ At(s, "down.container") /\ emulator' = Gone /\ MoveTo(s, "down.network")
  /\ UNCHANGED <<files, network, runtime, service, world>>
DownNetwork(s) ==
  /\ At(s, "down.network") /\ network' = Nothing /\ MoveTo(s, "down.final")
  /\ UNCHANGED <<files, emulator, runtime, service, world>>
DownFinal(s) ==
  /\ At(s, "down.final") /\ MoveTo(s, "forget")
  /\ UNCHANGED <<files, docker, service, world>>
Forget(s) ==
  /\ At(s, "forget") /\ disk' = Nothing /\ Close(s)
  /\ UNCHANGED <<routing, docker, service, world>>

DownSteps(s) ==
  \/ DownBegin(s) \/ Unroute(s, "down.unroute", "down.stop") \/ DownStop(s)
  \/ DownContainer(s) \/ DownNetwork(s) \/ DownFinal(s) \/ Forget(s)
-----------------------------------------------------------------------------
(* A step that throws: its check does not hold, or the call it makes fails. *)
(* A verification under way turns to its teardown, and tries a failed one   *)
(* once more; any other command closes its session and gives up the lock.   *)

Throws(s) ==
  LET x == session[s] IN
  IF \/ x.op = "verify" /\ x.pc # "begin" /\ ~x.again
     \/ x.pc = "prove"
  THEN /\ session' = [session EXCEPT ![s].pc = "down.begin", ![s].down = TRUE,
                                     ![s].again = x.down]
       /\ UNCHANGED lock
  ELSE Close(s)
Throw(s) ==
  /\ session[s].pc # "closed"
  /\ \/ /\ ~Holds(s) /\ UNCHANGED mishaps
     \/ /\ mishaps < MaxMishaps /\ mishaps' = mishaps + 1
  /\ Throws(s)
  /\ UNCHANGED <<disk, routing, docker, service, owners, leaving>>

Work(s) ==
  Up(s) \/ BeginCommand(s) \/ ProvisionSteps(s) \/ ResetSteps(s) \/ Cleanup(s) \/ DownSteps(s)
-----------------------------------------------------------------------------
(* Everything else: kills, the emulator and its runtimes, and strangers who *)
(* happen to use the lab's names.                                           *)

Mishap == mishaps < MaxMishaps /\ mishaps' = mishaps + 1 /\ UNCHANGED <<owners, leaving>>

Killed(s) ==
  /\ session[s].pc # "closed" /\ Mishap
  /\ session' = [session EXCEPT ![s] = Closed] /\ lock' = "stale"
  /\ UNCHANGED <<disk, routing, docker, service>>
EmulatorDies ==
  /\ emulator.state = "running" /\ Mishap
  /\ emulator' = [emulator EXCEPT !.state = "exited"]
  /\ service' = [k \in Kinds |-> "none"]
  /\ UNCHANGED <<files, network, runtime, session>>

\* A container is known by its identifier: a new one takes no place a session
\* still has in its list.
Free(r) == runtime[r] = Gone /\ \A s \in Sessions : r \notin session[s].todo
Spawn(r) ==
  /\ emulator.state = "running" /\ service["function"] = "whole" /\ Free(r)
  /\ runtime' = [runtime EXCEPT ![r] = [state |-> "running", owner |-> emulator.owner]]
  /\ UNCHANGED <<files, emulator, network, service, session, world>>
Reap(r) ==
  /\ emulator.state = "running" /\ runtime[r].owner = emulator.owner
  /\ \E state \in {"exited", "removing"} :
       /\ runtime[r].state \in {"running", "exited"} \ {state}
       /\ runtime' = [runtime EXCEPT ![r].state = state]
  /\ UNCHANGED <<files, emulator, network, service, session, world>>
Removed(r) ==
  /\ runtime[r].state = "removing" /\ runtime' = [runtime EXCEPT ![r] = Gone]
  /\ UNCHANGED <<files, emulator, network, service, session, world>>

Stranger == [state |-> "exited", owner |-> Foreign]
\* A session has found the names free and makes its services.
Provisioning == \E s \in Sessions : session[s].pc \in {"provision.save", "create"}
ForeignAppears ==
  /\ Mishap /\ ~leaving
  /\ \/ emulator = Gone /\ emulator' = Stranger /\ UNCHANGED <<network, runtime, service>>
     \/ network = Nothing /\ network' = Foreign /\ UNCHANGED <<emulator, runtime, service>>
     \/ \E r \in Runtimes : /\ Free(r) /\ runtime' = [runtime EXCEPT ![r] = Stranger]
                             /\ UNCHANGED <<emulator, network, service>>
     \/ \E k \in Kinds : /\ emulator.state = "running" /\ service[k] = "none"
                          /\ service' = [service EXCEPT ![k] =
                                           IF Provisioning THEN "late" ELSE "foreign"]
                          /\ UNCHANGED docker
  /\ UNCHANGED <<files, session>>
ForeignLeaves ==
  /\ \/ emulator = Stranger /\ emulator' = Gone /\ UNCHANGED <<network, runtime, service>>
     \/ network = Foreign /\ network' = Nothing /\ UNCHANGED <<emulator, runtime, service>>
     \/ \E r \in Runtimes : /\ runtime[r] = Stranger
                             /\ runtime' = [runtime EXCEPT ![r] = Gone]
                             /\ UNCHANGED <<emulator, network, service>>
     \/ \E k \in Kinds : /\ service[k] \in Strangers
                          /\ service' = [service EXCEPT ![k] = "none"]
                          /\ UNCHANGED docker
  /\ UNCHANGED <<files, session, world>>

\* From some day on the operators only tear the lab down.
Leave ==
  /\ ~leaving /\ leaving' = TRUE
  /\ UNCHANGED <<files, docker, service, session, owners, mishaps>>

Operate(s) ==
  \/ \E op \in {"up", "provision", "reset", "verify", "prove", "down"} :
       /\ leaving => op = "down"
       /\ Open(s, op)
  \/ Work(s) \/ Throw(s)
Surroundings ==
  \/ \E s \in Sessions : Killed(s)
  \/ \E r \in Runtimes : Spawn(r) \/ Reap(r) \/ Removed(r)
  \/ RemoveStaleLock \/ EmulatorDies \/ ForeignAppears \/ ForeignLeaves \/ Leave
LabNext == (\E s \in Sessions : Operate(s)) \/ Surroundings

\* A session that is not killed goes on (strongly: an inspection waits for the runtimes
\* it listed, each of which goes, and not for those spawned since); the operators come
\* back to tear the lab down; a runtime being removed goes, and so do, in the end, the
\* strangers.
Fairness ==
  /\ SF_labVars(\E s \in Sessions : Work(s))
  /\ WF_labVars(\E s \in Sessions : ~Holds(s) /\ Throw(s))
  /\ WF_labVars(\E s \in Sessions : Open(s, "down"))
  /\ WF_labVars(RemoveStaleLock)
  /\ \A r \in Runtimes : WF_labVars(Removed(r))
  /\ WF_labVars(leaving /\ ForeignLeaves)

LabSpec == LabInit /\ [][LabNext]_labVars
FairLabSpec == LabSpec /\ Fairness
-----------------------------------------------------------------------------
(* Properties                                                               *)

\* Whatever of the lab exists, its manifest is on disk: up writes it before it
\* creates anything, down removes it after everything, wherever either is killed.
\* So a lab can always be torn down, and never has two owners.
NothingIsOrphaned ==
  \A owner \in 1 .. owners :
    \/ Exists(emulator) /\ emulator.owner = owner
    \/ network = owner
    \/ \E r \in Runtimes : Exists(runtime[r]) /\ runtime[r].owner = owner
    \/ routing = owner
    => disk # Nothing /\ disk.owner = owner

\* No step of a session touches a container, a network or a service that somebody
\* else made under the lab's names, whenever it appeared.  The exception is a bucket,
\* a queue or a rule made after a provisioning found the names free: their creation
\* does not fail, and takes the namesake over.
ForeignIsUntouched ==
  [][/\ session' # session =>
          /\ emulator = Stranger => emulator' = emulator
          /\ network = Foreign => network' = network
          /\ \A r \in Runtimes : runtime[r] = Stranger => runtime'[r] = Stranger
     /\ \A k \in Kinds : service[k] \in Strangers /\ emulator'.state = "running" =>
          \/ service'[k] = service[k]
          \/ service'[k] = "none" /\ session' = session     \* its maker removes it
          \/ /\ service[k] = "late" /\ k \in Upserted
             /\ \E s \in Sessions : session[s].pc = "create"]_labVars

Vanished ==
  disk = Nothing /\ routing = Nothing /\ emulator = Gone /\ network = Nothing
  /\ \A r \in Runtimes : runtime[r] = Gone

\* Once the operators only tear down, the lab is gone, however the commands before
\* ended: no crash, half-made service or dead emulator makes it impossible.
DownSucceeds == leaving ~> Vanished
=============================================================================
