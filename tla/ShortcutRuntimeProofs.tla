------------------------ MODULE ShortcutRuntimeProofs ------------------------
(***************************************************************************)
(* What ShortcutRuntime checks with two devices and three events, proved   *)
(* for any devices and any number of events.                               *)
(***************************************************************************)
EXTENDS ShortcutRuntime, SequenceTheorems, TLAPS

(***************************************************************************)
(* The inductive invariant.                                                *)
(***************************************************************************)

Steps == {"resolve", "prepare", "presync", "spawn", "hook", "wait", "postsync", "save", "done"}
Mains == [pc : Steps, way : Numbers, state : BOOLEAN, dirty : BOOLEAN, changed : BOOLEAN,
          failed : BOOLEAN, broken : SUBSET Numbers, spawned : SUBSET Numbers,
          code : {"none", "refused", "failed", "ended"}]
Events == [button : Buttons, down : BOOLEAN]

TypeInv ==
  /\ TypeOK /\ main \in Mains
  /\ queue \in [Devices -> Seq(Events)]

\* Only the first way of launching has a hook, and it is the way whose hook is
\* being set up or watches.
HookInv == main.pc = "hook" \/ watcher # "off" => Way = "hook"

\* Until somebody waits for the emulator there is nobody to watch.
Unwatched ==
  /\ pressed = [d \in Devices |-> {}] /\ queue = [d \in Devices |-> <<>>]
  /\ seen = [d \in Devices |-> {}] /\ reader = {} /\ ~trigger /\ ~held /\ watcher = "off"
  /\ Late \notin alive
EarlySteps == {"resolve", "prepare", "presync", "spawn", "hook"}
EarlyInv == main.pc \in EarlySteps => Unwatched

\* The first n events of q, with the buttons of set down before, leave button b
\* down.
Down(q, set, b, n) ==
  \/ \E j \in 1..n : /\ q[j].button = b /\ q[j].down
                     /\ \A k \in (j + 1)..n : q[k].button # b
  \/ b \in set /\ \A j \in 1..n : q[j].button # b
DownAfter(d, b, n) == Down(queue[d], seen[d], b, n)

\* A reader is behind the device, not beside it: with all its events it is
\* where the device is, and it never passes both buttons unless they were held.
ReaderInv == \A d \in reader :
  /\ \A b \in Buttons : DownAfter(d, b, Len(queue[d])) <=> b \in pressed[d]
  /\ \A n \in 0..Len(queue[d]) : (\A b \in Buttons : DownAfter(d, b, n)) => held

HeldInv == /\ trigger => held
           /\ \A d \in Devices : pressed[d] = Buttons => held

\* The instance that was there before the launch is among those that were found,
\* if the listing worked.
OwnInv == Host = "darwin" /\ (main.pc = "hook" \/ watcher # "off") /\ Early \in alive
            => Early \in pids \/ "before" \in blind

\* A way that was started and is not the current one had its hook break, and the
\* client of the current one is there as long as its emulator, but for Flatpak.
Attended(running, clients, missed) ==
  serves[main.way] \in running =>
    main.way \in clients \/ "left" \in missed \/ (Flatpak /\ Way = "hook")
LaunchInv ==
  /\ main.spawned \subseteq main.broken \cup {main.way} /\ main.spawned \subseteq 1 .. main.way
  /\ main.pc \in EarlySteps \ {"hook"} => main.spawned \subseteq main.broken /\ main.way \notin main.spawned
  /\ main.way \in main.spawned => Attended(alive, client, blind)
  /\ ~Flatpak => "left" \notin blind
  /\ Host # "darwin" => \A w \in Numbers : serves[w] = w

\* A state that changed is known to have changed, unless a sync failed.
StateInv == /\ ~main.failed /\ main.dirty => main.changed
            /\ main.pc \in {"resolve", "prepare", "presync"} => ~main.dirty

IInv == /\ TypeInv /\ HookInv /\ EarlyInv /\ ReaderInv /\ HeldInv /\ OwnInv
        /\ LaunchInv /\ StateInv /\ UploadAfterExit

-----------------------------------------------------------------------------
(* Ways of launching.                                                      *)

Hooked == Targets \ {<<"darwin", "other">>, <<"linux", "other">>}

\* A hook comes first, and is the only way on Linux with Azahar alone.
LEMMA WaysOf ==
  ASSUME NEW t \in Targets
  PROVE  /\ Len(Ways(t)) \in Numbers
         /\ \A i \in 1..Len(Ways(t)) : Ways(t)[i] = "hook" <=> i = 1 /\ t \in Hooked
         /\ t \in Hooked /\ t # <<"linux", "azahar">> => Len(Ways(t)) > 1
  <1>1. CASE t = <<"windows", "azahar">>
    BY <1>1 DEF Ways, Hooked, Targets, Numbers
  <1>2. CASE t = <<"darwin", "azahar">>
    BY <1>2 DEF Ways, Hooked, Targets, Numbers
  <1>3. CASE t = <<"darwin", "other">>
    BY <1>3 DEF Ways, Hooked, Targets, Numbers
  <1>4. CASE t = <<"linux", "dolphin">>
    BY <1>4 DEF Ways, Hooked, Targets, Numbers
  <1>5. CASE t = <<"linux", "azahar">>
    BY <1>5 DEF Ways, Hooked, Targets, Numbers
  <1>6. CASE t = <<"linux", "other">>
    BY <1>6 DEF Ways, Hooked, Targets, Numbers
  <1> QED BY <1>1, <1>2, <1>3, <1>4, <1>5, <1>6 DEF Targets

\* The way that is tried.
LEMMA WayNow ==
  ASSUME TypeInv
  PROVE  /\ target \in Targets /\ main \in Mains
         /\ main.way \in Nat /\ Len(Ways(target)) \in Nat
         /\ main.way >= 1 /\ main.way <= Len(Ways(target)) /\ Len(Ways(target)) <= 4
         /\ Way = "hook" <=> main.way = 1 /\ target \in Hooked
         /\ target \in Hooked /\ target # <<"linux", "azahar">> => Len(Ways(target)) > 1
  <1>1. target \in Targets /\ main \in Mains /\ main.way \in 1..Len(Ways(target))
    BY DEF TypeInv, TypeOK
  <1> QED BY <1>1, WaysOf DEF Numbers, Way

\* The ways of moving the main thread on.
LEMMA Stepped ==
  ASSUME main \in Mains, NEW pc \in Steps, Step(pc)
  PROVE  /\ main' \in Mains /\ main'.pc = pc /\ main'.way = main.way
         /\ main'.state = main.state
         /\ main'.dirty = main.dirty /\ main'.changed = main.changed
         /\ main'.failed = main.failed /\ main'.broken = main.broken
         /\ main'.spawned = main.spawned
  BY DEF Step, Mains

LEMMA Refused ==
  ASSUME main \in Mains, Refuse
  PROVE  /\ main' \in Mains /\ main'.pc = "done" /\ main'.way = main.way
         /\ main'.dirty = main.dirty /\ main'.changed = main.changed
         /\ main'.failed = main.failed /\ main'.broken = main.broken
         /\ main'.spawned = main.spawned
  BY DEF Refuse, Mains, Steps

\* What the main thread does to its own record.
MainKept == /\ main'.way = main.way /\ main'.broken = main.broken
            /\ main'.spawned = main.spawned

\* Up to the spawn: no process is started and the state is clean or known dirty.
LEMMA PreparedMain ==
  ASSUME TypeInv, StateInv, Resolve \/ Prepare \/ Presync
  PROVE  /\ main' \in Mains /\ MainKept /\ StateInv'
         /\ main.pc \in {"resolve", "prepare", "presync"}
         /\ main'.pc \in {"prepare", "presync", "spawn", "done"}
         /\ main'.pc = "done" /\ ~main'.failed => ~main'.dirty
  <1>0. main \in Mains
    BY DEF TypeInv
  <1>1. CASE Refuse
    BY <1>0, <1>1, Refused DEF Resolve, Prepare, Presync, Before, MainKept, StateInv
  <1>2. CASE \E s \in BOOLEAN : main.pc = "resolve" /\ main' = [main EXCEPT !.pc = "prepare", !.state = s]
    <2>1. /\ main' \in Mains /\ main'.pc = "prepare" /\ main'.way = main.way
          /\ main'.dirty = main.dirty /\ main'.changed = main.changed
          /\ main'.failed = main.failed /\ main'.broken = main.broken
          /\ main'.spawned = main.spawned
      BY <1>0, <1>2 DEF Mains, Steps
    <2> QED BY <1>2, <2>1 DEF MainKept, StateInv
  <1>3. CASE (Prepare /\ Step("presync")) \/ (Presync /\ Step("spawn"))
    <2>1. PICK pc \in {"presync", "spawn"} : Step(pc)
      BY <1>3
    <2>2. pc \in Steps
      BY DEF Steps
    <2> QED BY <1>0, <1>3, <2>1, <2>2, Stepped DEF MainKept, StateInv, Prepare, Presync, Before
  <1>4. CASE Presync /\ main' = [main EXCEPT !.pc = "spawn", !.dirty = TRUE, !.changed = TRUE]
    <2>1. /\ main' \in Mains /\ main'.pc = "spawn" /\ main'.way = main.way
          /\ main'.changed = TRUE
          /\ main'.failed = main.failed /\ main'.broken = main.broken
          /\ main'.spawned = main.spawned
      BY <1>0, <1>4 DEF Mains, Steps
    <2> QED BY <1>4, <2>1 DEF MainKept, StateInv, Presync, Before
  <1>5. CASE Presync /\ \E d \in BOOLEAN : main' = [main EXCEPT !.pc = "spawn", !.dirty = d, !.failed = TRUE]
    <2>1. /\ main' \in Mains /\ main'.pc = "spawn" /\ main'.way = main.way
          /\ main'.failed = TRUE /\ main'.broken = main.broken
          /\ main'.spawned = main.spawned
      BY <1>0, <1>5 DEF Mains, Steps
    <2> QED BY <1>5, <2>1 DEF MainKept, StateInv, Presync, Before
  <1> QED BY <1>1, <1>2, <1>3, <1>4, <1>5 DEF Resolve, Prepare, Presync, Before

\* The way back from the emulator.
LEMMA ReturnedMain ==
  ASSUME main \in Mains
  PROVE  /\ Returned \in Mains /\ Returned.pc \in {"postsync", "save"} /\ Returned.way = main.way
         /\ Returned.dirty = main.dirty /\ Returned.changed = main.changed
         /\ Returned.failed = main.failed /\ Returned.broken = main.broken
         /\ Returned.spawned = main.spawned
  <1>1. PICK pc \in {"postsync", "save"} : pc = IF main.state THEN "postsync" ELSE "save"
    OBVIOUS
  <1>2. Returned = [main EXCEPT !.pc = pc, !.code = "ended"]
    BY <1>1 DEF Returned
  <1> QED BY <1>2 DEF Mains, Steps

\* What happens to the main thread when a way does not work.
Moved ==
  \/ main'.pc = "spawn" /\ main'.way = main.way + 1
  \/ main'.pc \in {"save", "postsync"} /\ main'.way = main.way

\* The next way, or none.
LEMMA NextMain ==
  ASSUME TypeInv, StateInv, FailsToSpawn
  PROVE  /\ main' \in Mains /\ main'.spawned = main.spawned /\ main'.broken = main.broken
         /\ main.pc = "spawn" /\ main'.way \in 1..Len(Ways(target)) /\ StateInv' /\ Moved
  <1>0. main.pc = "spawn"
    BY DEF FailsToSpawn, Before
  <1>1. CASE NextWay /\ main.way < Len(Ways(target))
    <2>1. main' = [main EXCEPT !.pc = "spawn", !.way = @ + 1]
      BY <1>1 DEF NextWay
    <2>2. main.way + 1 \in 1..Len(Ways(target)) /\ main.way + 1 \in Numbers
      BY <1>1, WayNow DEF Numbers
    <2>3. /\ main' \in Mains /\ main'.pc = "spawn" /\ main'.way = main.way + 1
          /\ main'.dirty = main.dirty /\ main'.changed = main.changed
          /\ main'.failed = main.failed /\ main'.broken = main.broken
          /\ main'.spawned = main.spawned
      BY <2>1, <2>2, WayNow DEF Mains, Steps
    <2> QED BY <1>0, <2>2, <2>3 DEF StateInv, Moved
  <1>2. CASE NextWay /\ ~(main.way < Len(Ways(target)))
    <2>1. main' = [main EXCEPT !.pc = "save", !.code = "failed"]
      BY <1>2 DEF NextWay
    <2>2. /\ main' \in Mains /\ main'.pc = "save" /\ main'.way = main.way
          /\ main'.dirty = main.dirty /\ main'.changed = main.changed
          /\ main'.failed = main.failed /\ main'.broken = main.broken
          /\ main'.spawned = main.spawned
      BY <2>1, WayNow DEF Mains, Steps
    <2> QED BY <1>0, <2>2, WayNow DEF StateInv, Moved
  <1>3. CASE main' = Returned
    BY <1>0, <1>3, ReturnedMain, WayNow DEF StateInv, Moved
  <1> QED BY <1>1, <1>2, <1>3 DEF FailsToSpawn

\* A hook that breaks goes on to the next way, or ends the launch, and is
\* remembered.
LEMMA BrokenMain ==
  ASSUME TypeInv, StateInv, HookInv, HookBreaks
  PROVE  /\ main' \in Mains /\ main'.spawned = main.spawned
         /\ main'.broken = main.broken \cup {main.way}
         /\ main.pc = "hook" /\ main'.way \in 1..Len(Ways(target)) /\ StateInv' /\ Moved
  <1>0. main.pc = "hook" /\ main.way \in Numbers
    BY WayNow DEF HookBreaks, Before, Numbers
  <1>1. CASE target # <<"linux", "azahar">>
    <2>1. main.way + 1 \in 1..Len(Ways(target)) /\ main.way + 1 \in Numbers
      BY <1>0, <1>1, WayNow DEF Numbers, HookInv
    <2>2. main' = [main EXCEPT !.pc = "spawn", !.way = @ + 1, !.broken = @ \cup {main.way}]
      BY <1>1 DEF HookBreaks
    <2>3. /\ main' \in Mains /\ main'.pc = "spawn" /\ main'.way = main.way + 1
          /\ main'.dirty = main.dirty /\ main'.changed = main.changed
          /\ main'.failed = main.failed /\ main'.broken = main.broken \cup {main.way}
          /\ main'.spawned = main.spawned
      BY <1>0, <2>1, <2>2, WayNow DEF Mains, Steps
    <2> QED BY <1>0, <2>1, <2>3 DEF StateInv, Moved
  <1>2. CASE target = <<"linux", "azahar">>
    <2>1. main' = [Returned EXCEPT !.broken = @ \cup {main.way}]
      BY <1>2 DEF HookBreaks
    <2>2. /\ Returned \in Mains /\ Returned.pc \in {"postsync", "save"} /\ Returned.way = main.way
          /\ Returned.dirty = main.dirty /\ Returned.changed = main.changed
          /\ Returned.failed = main.failed /\ Returned.broken = main.broken
          /\ Returned.spawned = main.spawned
      BY WayNow, ReturnedMain
    <2>3. /\ main' \in Mains /\ main'.pc = Returned.pc /\ main'.way = Returned.way
          /\ main'.dirty = Returned.dirty /\ main'.changed = Returned.changed
          /\ main'.failed = Returned.failed /\ main'.broken = Returned.broken \cup {main.way}
          /\ main'.spawned = Returned.spawned
      BY <1>0, <2>1, <2>2 DEF Mains, Steps
    <2> QED BY <1>0, <2>2, <2>3, WayNow DEF StateInv, Moved
  <1> QED BY <1>1, <1>2

\* A spawn adds the current way to those that were started.
LEMMA SpawnMain ==
  ASSUME TypeInv, StateInv, Spawn
  PROVE  /\ main' \in Mains /\ main'.spawned = main.spawned \cup {main.way}
         /\ main'.broken = main.broken /\ main'.way = main.way
         /\ main'.pc = (IF Way = "hook" THEN "hook" ELSE "wait") /\ StateInv'
  <1>0. main.pc = "spawn" /\ main' = [main EXCEPT !.pc = IF Way = "hook" THEN "hook" ELSE "wait",
                                                  !.spawned = @ \cup {main.way}]
    BY DEF Spawn
  <1>1. main \in Mains /\ main.way \in Numbers
    BY WayNow DEF Numbers
  <1>2. PICK pc \in {"hook", "wait"} : pc = IF Way = "hook" THEN "hook" ELSE "wait"
    OBVIOUS
  <1>3. /\ main' \in Mains /\ main'.pc = pc /\ main'.way = main.way
        /\ main'.dirty = main.dirty /\ main'.changed = main.changed
        /\ main'.failed = main.failed /\ main'.broken = main.broken
        /\ main'.spawned = main.spawned \cup {main.way}
    BY <1>0, <1>1, <1>2 DEF Mains, Steps
  <1> QED BY <1>0, <1>2, <1>3 DEF StateInv

\* The end of a launch.
LEMMA LastMain ==
  ASSUME TypeInv, StateInv, StartWatcher \/ Wait \/ Postsync \/ Save
  PROVE  /\ main' \in Mains /\ MainKept /\ StateInv'
         /\ \/ StartWatcher /\ main'.pc = "wait"
            \/ Wait /\ main'.pc \in {"postsync", "save"}
            \/ Postsync /\ main'.pc = "save"
            \/ Save /\ main'.pc = "done"
         /\ main'.pc = "done" /\ ~main'.failed => ~main'.dirty
  <1>0. main \in Mains
    BY DEF TypeInv
  <1>1. CASE StartWatcher
    BY <1>0, <1>1, Stepped DEF StartWatcher, Steps, MainKept, StateInv
  <1>2. CASE Wait
    <2>1. main' = Returned /\ main.pc = "wait"
      BY <1>2 DEF Wait
    <2> QED BY <1>0, <1>2, <2>1, ReturnedMain DEF MainKept, StateInv
  <1>3. CASE Postsync
    <2>1. PICK d \in BOOLEAN :
            \/ main' = [main EXCEPT !.pc = "save", !.dirty = @ \/ d, !.changed = @ \/ d]
            \/ main' = [main EXCEPT !.pc = "save", !.dirty = @ \/ d, !.failed = TRUE]
      BY <1>3 DEF Postsync
    <2>2. /\ main' \in Mains /\ main'.pc = "save" /\ main'.way = main.way
          /\ main'.dirty = (main.dirty \/ d)
          /\ main'.failed \/ (main'.failed = main.failed /\ main'.changed = (main.changed \/ d))
          /\ main'.broken = main.broken /\ main'.spawned = main.spawned
      BY <1>0, <2>1 DEF Mains, Steps
    <2> QED BY <1>3, <2>2 DEF MainKept, StateInv
  <1>4. CASE Save
    <2>1. main' = [main EXCEPT !.pc = "done", !.dirty = @ /\ ~main.changed]
      BY <1>4 DEF Save
    <2>2. /\ main' \in Mains /\ main'.pc = "done" /\ main'.way = main.way
          /\ main'.dirty = (main.dirty /\ ~main.changed) /\ main'.changed = main.changed
          /\ main'.failed = main.failed /\ main'.broken = main.broken
          /\ main'.spawned = main.spawned
      BY <1>0, <2>1 DEF Mains, Steps
    <2> QED BY <1>4, <2>2 DEF MainKept, StateInv
  <1> QED BY <1>1, <1>2, <1>3, <1>4

-----------------------------------------------------------------------------
(* The main thread.                                                        *)

\* A step of the main thread that touches nothing else.
LEMMA QuietMain ==
  ASSUME IInv, UNCHANGED <<target, threads, input, watcher, blind, used>>,
         main' \in Mains, main'.way \in 1..Len(Ways(target)), main'.spawned = main.spawned,
         main'.pc # "hook", main'.pc \in EarlySteps => main.pc \in EarlySteps,
         main'.way = main.way \/ main.pc \in EarlySteps,
         StateInv', LaunchInv', UploadAfterExit'
  PROVE  IInv'
  <1>1. TypeInv'
    BY DEF IInv, TypeInv, TypeOK, threads, input
  <1>2. HookInv' /\ OwnInv'
    BY DEF IInv, HookInv, OwnInv, EarlyInv, Unwatched, Host, Way, threads
  <1>3. EarlyInv'
    BY DEF IInv, EarlyInv, Unwatched, input, threads
  <1>4. ReaderInv' /\ HeldInv'
    BY DEF IInv, ReaderInv, HeldInv, DownAfter, input
  <1> QED BY <1>1, <1>2, <1>3, <1>4 DEF IInv

\* The steps up to the spawn touch nothing that is watched.
LEMMA PrepareKeeps ==
  ASSUME IInv, Resolve \/ Prepare \/ Presync
  PROVE  IInv'
  <1>1. /\ main' \in Mains /\ MainKept /\ StateInv'
        /\ main.pc \in {"resolve", "prepare", "presync"}
        /\ main'.pc \in {"prepare", "presync", "spawn", "done"}
        /\ main'.pc = "done" /\ ~main'.failed => ~main'.dirty
    BY PreparedMain DEF IInv
  <1>2. UNCHANGED <<target, threads, input, watcher, blind, used>>
    BY DEF Resolve, Prepare, Presync, Before
  <1>3. LaunchInv'
    BY <1>1, <1>2 DEF IInv, LaunchInv, Attended, MainKept, EarlySteps, Flatpak, Host, Way, threads
  <1>4. UploadAfterExit'
    BY <1>1 DEF UploadAfterExit
  <1> QED BY <1>1, <1>2, <1>3, <1>4, QuietMain, WayNow DEF IInv, MainKept, EarlySteps

\* A way that fails before its spawn has started nothing; one that fails after
\* it is a broken hook.
LEMMA NextWayKeeps ==
  ASSUME IInv, FailsToSpawn \/ HookBreaks
  PROVE  IInv'
  <1>1. UNCHANGED <<target, threads, input, watcher, blind, used>>
    BY DEF FailsToSpawn, HookBreaks, Before
  <1>2. /\ main' \in Mains /\ main'.spawned = main.spawned /\ main'.way \in 1..Len(Ways(target))
        /\ StateInv' /\ main.pc \in {"spawn", "hook"} /\ Moved
        /\ \/ main'.broken = main.broken \cup {main.way}
           \/ main.pc = "spawn" /\ main'.broken = main.broken
    BY NextMain, BrokenMain DEF IInv
  <1>3. /\ main'.spawned \subseteq main'.broken /\ main'.spawned \subseteq 1..main.way
        /\ main'.pc = "spawn" => main'.way = main.way + 1
        /\ main'.way # main.way => main'.way = main.way + 1
    BY <1>2 DEF IInv, LaunchInv, EarlySteps, Moved
  <1>4. main.way \in Nat /\ 1..main.way \subseteq 1..(main.way + 1) /\ main.way + 1 \notin 1..main.way
    BY WayNow DEF IInv
  <1>5. LaunchInv'
    <2>1. main'.way # main.way => main'.way \notin main'.spawned
      BY <1>3, <1>4
    <2>2. main'.spawned \subseteq 1..main'.way
      BY <1>3, <1>4
    <2>3. main'.pc \in EarlySteps \ {"hook"} => main'.way \notin main'.spawned
      BY <1>2, <1>3, <1>4 DEF EarlySteps, Moved
    <2>4. main'.way = main.way => (Attended(alive, client, blind)' <=> Attended(alive, client, blind))
      BY <1>1 DEF Attended, Flatpak, Host, Way, threads
    <2>5. main'.way \in main'.spawned => Attended(alive, client, blind)'
      BY <1>2, <2>1, <2>4 DEF IInv, LaunchInv
    <2> QED BY <1>1, <1>3, <2>2, <2>3, <2>5 DEF IInv, LaunchInv, Flatpak, Host, threads
  <1>6. UploadAfterExit'
    BY <1>2, <1>3 DEF UploadAfterExit, Moved
  <1> QED BY <1>1, <1>2, <1>5, <1>6, QuietMain DEF EarlySteps, Moved

\* A spawn takes the instances that are there before it for the user's.
LEMMA SpawnKeeps ==
  ASSUME IInv, Spawn
  PROVE  IInv'
  <1>0. /\ main' \in Mains /\ main'.spawned = main.spawned \cup {main.way}
        /\ main'.broken = main.broken /\ main'.way = main.way
        /\ main'.pc = (IF Way = "hook" THEN "hook" ELSE "wait") /\ StateInv'
    BY SpawnMain DEF IInv
  <1>1. /\ UNCHANGED <<target, input, watcher, used>> /\ main.pc = "spawn"
        /\ client' = client \cup {main.way}
    BY DEF Spawn
  <1>2. PICK i \in Hosts : serves' = [serves EXCEPT ![main.way] = i] /\ alive' = alive \cup {i}
    BY DEF Spawn
  <1>3. /\ main.way \in Numbers /\ Late \notin alive /\ watcher = "off" /\ Unwatched
        /\ main.spawned \subseteq Numbers /\ alive \subseteq main.spawned \cup {Early, Late}
        /\ serves \in [Numbers -> Numbers \cup {Early}]
    BY <1>1, WayNow DEF IInv, EarlyInv, EarlySteps, Unwatched, Numbers, TypeInv, TypeOK, Mains
  <1>4. i = main.way \/ (i \in alive /\ Host = "darwin")
    BY DEF Hosts
  <1>5. /\ i \in Numbers \cup {Early} /\ i # Late /\ alive' \subseteq main'.spawned \cup {Early, Late}
        /\ Late \notin alive'
        /\ Early \in alive' => Early \in alive
    <2>1. Late \notin Numbers \cup {Early} /\ Early \notin Numbers
      BY DEF Late, Early, Numbers
    <2> QED BY <1>0, <1>2, <1>3, <1>4, <2>1
  <1>6. serves' \in [Numbers -> Numbers \cup {Early}] /\ serves'[main.way] = i
    BY <1>2, <1>3, <1>5
  <1>7. Way = "hook" => main.spawned = {}
    <2>1. Way = "hook" => main.way = 1
      BY WayNow DEF IInv
    <2>2. main.spawned \subseteq 1..main.way /\ main.way \notin main.spawned
      BY <1>1 DEF IInv, LaunchInv, EarlySteps
    <2> QED BY <2>1, <2>2
  <1>8. /\ pids' \subseteq {Early} /\ blind \subseteq blind' /\ blind' \subseteq blind \cup {"before"}
        /\ Host = "darwin" /\ Way = "hook" => (Early \in alive => Early \in pids' \/ "before" \in blind')
    <2>1. CASE Host = "darwin" /\ Way = "hook"
      <3>1. PICK listed \in BOOLEAN :
              /\ pids' = InstancesFound(listed)
              /\ blind' = IF listed \/ alive = {} THEN blind ELSE blind \cup {"before"}
        BY <2>1 DEF Spawn
      <3>2. alive \subseteq {Early}
        BY <1>3, <1>7, <2>1
      <3> QED BY <3>1, <3>2 DEF InstancesFound
    <2>2. CASE ~(Host = "darwin" /\ Way = "hook")
      BY <2>2 DEF Spawn, IInv, TypeInv, TypeOK
    <2> QED BY <2>1, <2>2
  <1>9. TypeInv'
    BY <1>0, <1>1, <1>5, <1>6, <1>8 DEF IInv, TypeInv, TypeOK, input
  <1>10. HookInv' /\ EarlyInv'
    BY <1>0, <1>1, <1>3, <1>5 DEF HookInv, EarlyInv, Unwatched, Way, input
  <1>11. ReaderInv' /\ HeldInv'
    BY <1>1 DEF IInv, ReaderInv, HeldInv, DownAfter, input
  <1>12. OwnInv'
    BY <1>0, <1>1, <1>3, <1>5, <1>8 DEF OwnInv, Host
  <1>13. LaunchInv'
    <2>1. main'.spawned \subseteq main'.broken \cup {main'.way}
      BY <1>0, <1>1 DEF IInv, LaunchInv, EarlySteps
    <2>2. main'.spawned \subseteq 1..main'.way
      BY <1>0, WayNow DEF IInv, LaunchInv
    <2>3. main'.way \in client'
      BY <1>0, <1>1
    <2>4. ~Flatpak' => "left" \notin blind'
      BY <1>1, <1>8 DEF IInv, LaunchInv, Flatpak, Host
    <2>5. Host' # "darwin" => \A w \in Numbers : serves'[w] = w
      BY <1>1, <1>2, <1>3, <1>4 DEF IInv, LaunchInv, Host
    <2> QED BY <1>0, <2>1, <2>2, <2>3, <2>4, <2>5 DEF LaunchInv, Attended, EarlySteps
  <1>14. UploadAfterExit'
    BY <1>0 DEF UploadAfterExit
  <1> QED BY <1>0, <1>9, <1>10, <1>11, <1>12, <1>13, <1>14 DEF IInv

\* Before the first event a reader is where its device is.
LEMMA StartWatcherKeeps ==
  ASSUME IInv, StartWatcher
  PROVE  IInv'
  <1>0. main' \in Mains /\ MainKept /\ StateInv' /\ main'.pc = "wait" /\ main.pc = "hook"
    <2>1. ~Wait /\ ~Postsync /\ ~Save
      BY DEF StartWatcher, Wait, Postsync, Save, Before
    <2> QED BY <2>1, LastMain DEF IInv, StartWatcher
  <1>1. /\ UNCHANGED <<target, threads, pressed, queue, seen, trigger, held, blind, used>>
        /\ reader' \subseteq Devices /\ watcher' \in {"off", "watch"}
    BY DEF StartWatcher
  <1>2. Unwatched
    BY <1>0 DEF IInv, EarlyInv, EarlySteps
  <1>3. TypeInv'
    BY <1>0, <1>1 DEF IInv, TypeInv, TypeOK, MainKept, threads
  <1>4. HookInv' /\ EarlyInv'
    BY <1>0, <1>1 DEF IInv, HookInv, EarlyInv, EarlySteps, MainKept, Way
  <1>5. HeldInv'
    BY <1>1 DEF IInv, HeldInv
  <1>6. ReaderInv'
    <2>1. ASSUME NEW d \in reader', NEW b \in Buttons, NEW n \in 0..Len(queue'[d]) PROVE ~DownAfter(d, b, n)'
      <3>1. d \in Devices /\ queue'[d] = <<>> /\ seen'[d] = {} /\ Len(queue'[d]) = 0
        BY <1>1, <1>2, <2>1 DEF Unwatched
      <3>2. n = 0
        BY <3>1
      <3> QED BY <3>1, <3>2 DEF DownAfter, Down
    <2>2. \A d \in reader' : pressed'[d] = {} /\ 0 \in 0..Len(queue'[d]) /\ Len(queue'[d]) = 0
      BY <1>1, <1>2 DEF Unwatched
    <2>3. "select" \in Buttons
      BY DEF Buttons
    <2> QED BY <2>1, <2>2, <2>3 DEF ReaderInv
  <1>7. OwnInv'
    BY <1>0, <1>1 DEF IInv, OwnInv, Host, threads
  <1>8. LaunchInv'
    BY <1>0, <1>1 DEF IInv, LaunchInv, Attended, EarlySteps, Flatpak, Host, Way, MainKept, threads
  <1>9. UploadAfterExit'
    BY <1>0 DEF UploadAfterExit
  <1> QED BY <1>0, <1>3, <1>4, <1>5, <1>6, <1>7, <1>8, <1>9 DEF IInv

\* The wait is over when nothing of this launch runs, as far as anybody looked.
LEMMA EndKeeps ==
  ASSUME IInv, Postsync \/ Save
  PROVE  IInv'
  <1>0. /\ main' \in Mains /\ MainKept /\ StateInv' /\ main'.pc \in {"save", "done"}
        /\ main'.pc = "done" /\ ~main'.failed => ~main'.dirty
        /\ main.pc \notin EarlySteps
    <2>1. ~StartWatcher /\ ~Wait
      BY DEF StartWatcher, Wait, Postsync, Save, Before
    <2> QED BY <2>1, LastMain DEF IInv, Postsync, Save, Before, EarlySteps
  <1>1. UNCHANGED <<target, threads, input, watcher, blind, used>>
    BY DEF Postsync, Save, Before
  <1>2. LaunchInv'
    BY <1>0, <1>1 DEF IInv, LaunchInv, Attended, EarlySteps, Flatpak, Host, Way, MainKept, threads
  <1>3. UploadAfterExit'
    BY <1>0 DEF UploadAfterExit
  <1> QED BY <1>0, <1>1, <1>2, <1>3, QuietMain, WayNow DEF IInv, MainKept, EarlySteps

LEMMA WaitKeeps ==
  ASSUME IInv, Wait
  PROVE  IInv'
  <1>0. /\ main' \in Mains /\ MainKept /\ StateInv' /\ main'.pc \in {"postsync", "save"}
        /\ main.pc = "wait"
    <2>1. ~StartWatcher /\ ~Postsync /\ ~Save
      BY DEF StartWatcher, Wait, Postsync, Save, Before
    <2> QED BY <2>1, LastMain DEF IInv, Wait
  <1>1. /\ UNCHANGED <<target, threads, input, watcher, used>> /\ blind \subseteq blind'
        /\ blind' \subseteq blind \cup {"end"}
    BY DEF Wait
  <1>2. TypeInv'
    BY <1>0, <1>1 DEF IInv, TypeInv, TypeOK, MainKept, threads, input
  <1>3. HookInv' /\ EarlyInv' /\ OwnInv'
    BY <1>0, <1>1 DEF IInv, HookInv, EarlyInv, EarlySteps, OwnInv, Host, Way, MainKept, threads
  <1>4. ReaderInv' /\ HeldInv'
    BY <1>1 DEF IInv, ReaderInv, HeldInv, DownAfter, input
  <1>5. LaunchInv'
    BY <1>0, <1>1 DEF IInv, LaunchInv, Attended, EarlySteps, Flatpak, Host, Way, MainKept, threads
  <1>6. ASSUME NEW w \in main.spawned, serves[w] \in alive, w \notin main.broken,
               "end" \notin blind'
        PROVE  Way # "hook" /\ "left" \in blind
    <2>1. w = main.way
      BY <1>6 DEF IInv, LaunchInv
    <2>2. main.way \in client \/ "left" \in blind \/ (Flatpak /\ Way = "hook")
      BY <1>6, <2>1 DEF IInv, LaunchInv, Attended
    <2>3. Ended(TRUE)
      BY <1>6 DEF Wait
    <2>4. ~(Flatpak /\ Way = "hook")
      BY <1>6, <2>3 DEF Ended, SessionActive
    <2>5. main.way \notin client
      BY <2>3, <2>4 DEF Ended
    <2> QED BY <2>2, <2>4, <2>5 DEF IInv, LaunchInv
  <1>7. UploadAfterExit'
    BY <1>0, <1>1, <1>6 DEF UploadAfterExit, MainKept, Way, threads
  <1> QED BY <1>0, <1>2, <1>3, <1>4, <1>5, <1>7 DEF IInv

-----------------------------------------------------------------------------
(* The coordinator, the readers and what is outside.                       *)

\* A step of another thread, or outside, that takes no event and makes none.
QuietTrigger == trigger' \in BOOLEAN /\ (trigger' => held) /\ (main.pc \in EarlySteps => trigger' = trigger)
Quiet ==
  /\ UNCHANGED <<target, main, serves, pids, pressed, queue, seen, held>> /\ QuietTrigger
  /\ used' \in 0..MaxPresses /\ reader' \subseteq reader /\ client' \subseteq client
  /\ alive' \subseteq alive \cup {Late} /\ (main.pc \in EarlySteps => alive' \subseteq alive)
  /\ blind \subseteq blind' /\ blind' \subseteq blind \cup {"kill", "left"}
  /\ ~Flatpak => "left" \notin blind'
  /\ main.way \in main.spawned => Attended(alive', client', blind')
  /\ watcher' \in {"off", "watch", "asked", "forced", "done"}
  /\ watcher = "off" => watcher' = "off"

LEMMA QuietOutside ==
  ASSUME IInv, Quiet
  PROVE  IInv'
  <1>1. TypeInv'
    BY DEF Quiet, QuietTrigger, IInv, TypeInv, TypeOK
  <1>2. HookInv' /\ StateInv'
    BY DEF Quiet, IInv, HookInv, StateInv, Way
  <1>3. OwnInv'
    BY DEF Quiet, IInv, OwnInv, Host, Early, Late
  <1>4. EarlyInv'
    BY DEF Quiet, QuietTrigger, IInv, EarlyInv, Unwatched
  <1>5. ReaderInv' /\ HeldInv'
    BY DEF Quiet, QuietTrigger, IInv, ReaderInv, HeldInv, DownAfter
  <1>6. LaunchInv'
    BY DEF Quiet, IInv, LaunchInv, Attended, Flatpak, Host, Way
  <1>7. UploadAfterExit'
    <2>1. \A w \in main.spawned : serves[w] \in alive' => serves[w] \in alive
      <3>1. main.spawned \subseteq Numbers /\ serves \in [Numbers -> Numbers \cup {Early}]
        BY DEF IInv, TypeInv, TypeOK, Mains
      <3>2. Late \notin Numbers \cup {Early}
        BY DEF Late, Early, Numbers
      <3> QED BY <3>1, <3>2 DEF Quiet
    <2> QED BY <2>1 DEF Quiet, IInv, UploadAfterExit, Way
  <1> QED BY <1>1, <1>2, <1>3, <1>4, <1>5, <1>6, <1>7 DEF IInv

\* The emulator of the current way outside macOS is the one it started.
LEMMA ServesOwn ==
  ASSUME IInv
  PROVE  /\ Host # "darwin" => serves[main.way] = main.way
         /\ Host = "darwin" \/ Host = "windows" \/ Host = "linux"
         /\ main.way \in main.spawned => Attended(alive, client, blind)
         /\ ~Flatpak => "left" \notin blind
  <1>1. main.way \in Numbers
    BY WayNow DEF IInv, Numbers
  <1>2. target \in Targets
    BY DEF IInv, TypeInv, TypeOK
  <1> QED BY <1>1, <1>2 DEF IInv, LaunchInv, Host, Targets

\* What the coordinator does to the processes.
LEMMA SignalKeeps ==
  ASSUME IInv, watcher # "off", NEW deadly \in BOOLEAN, Signal(deadly)
  PROVE  /\ client' \subseteq client /\ alive' \subseteq alive
         /\ blind \subseteq blind' /\ blind' \subseteq blind \cup {"kill"}
         /\ main.way \in main.spawned => Attended(alive', client', blind')
  <1>1. Way = "hook"
    BY DEF IInv, HookInv
  <1>2. CASE Host = "darwin"
    <2>1. client' = client /\ alive' \subseteq alive /\ blind \subseteq blind'
          /\ blind' \subseteq blind \cup {"kill"}
      BY <1>2 DEF Signal
    <2> QED BY <2>1, ServesOwn DEF Attended
  <1>3. CASE Host # "darwin"
    <2>1. /\ client' \subseteq client /\ alive' \subseteq alive /\ blind' = blind
          /\ ~Flatpak => alive' = alive \ (client \ client')
      BY <1>3 DEF Signal
    <2>2. ~Flatpak => (main.way \in alive' /\ main.way \in client => main.way \in client')
      BY <2>1
    <2> QED BY <1>1, <1>3, <2>1, <2>2, ServesOwn DEF Attended
  <1> QED BY <1>2, <1>3

\* The coordinator ends processes and starts none; what it polls is held.
LEMMA WatcherQuiet ==
  ASSUME IInv, StopWatching \/ Poll \/ Ask \/ Terminate \/ KillClient \/ GiveUp
  PROVE  Quiet
  <1>0. /\ used \in 0..MaxPresses
        /\ main.way \in main.spawned => Attended(alive, client, blind)
        /\ ~Flatpak => "left" \notin blind
    BY ServesOwn DEF IInv, TypeInv, TypeOK
  <1>5. trigger \in BOOLEAN /\ (trigger => held)
    BY DEF IInv, TypeInv, TypeOK, HeldInv
  <1>6. trigger' = trigger => QuietTrigger
    BY <1>5 DEF QuietTrigger
  <1>1. CASE StopWatching \/ GiveUp
    BY <1>0, <1>1, <1>6 DEF StopWatching, GiveUp, input, threads, Quiet
  <1>2. CASE Poll
    <2>1. held /\ watcher # "off"
      BY <1>2 DEF Poll, IInv, HeldInv
    <2>2. main.pc \notin EarlySteps
      BY <2>1 DEF IInv, EarlyInv, Unwatched
    <2>3. UNCHANGED <<target, main, client, alive, serves, pids, pressed, queue, seen, reader, held, watcher, blind, used>> /\ trigger'
      BY <1>2 DEF Poll, threads
    <2>4. watcher \in {"off", "watch", "asked", "forced", "done"}
      BY DEF IInv, TypeInv, TypeOK
    <2>5. QuietTrigger
      BY <1>5, <2>1, <2>2, <2>3 DEF QuietTrigger
    <2> QED BY <1>0, <2>3, <2>4, <2>5 DEF Quiet
  <1>3. CASE Ask
    <2>1. watcher = "watch" /\ watcher' = "asked" /\ client' = client
          /\ UNCHANGED <<target, main, serves, pids, pressed, queue, seen, reader, trigger, held, blind, used>>
      BY <1>3 DEF Ask, input
    <2>2. alive' \subseteq alive
      BY <1>3 DEF Ask
    <2>3. main.way \in main.spawned => Attended(alive', client', blind')
      BY <1>0, <2>1, <2>2 DEF Attended
    <2> QED BY <1>0, <1>6, <2>1, <2>2, <2>3 DEF Quiet
  <1>4. CASE Terminate \/ KillClient
    <2>1. /\ watcher # "off" /\ watcher' \in {"forced", "done"}
          /\ UNCHANGED <<target, main, serves, pids, pressed, queue, seen, reader, trigger, held, used>>
      BY <1>4 DEF Terminate, KillClient, input
    <2>2. PICK deadly \in BOOLEAN : Signal(deadly)
      BY <1>4 DEF Terminate, KillClient
    <2> QED BY <1>0, <1>6, <2>1, <2>2, SignalKeeps DEF Quiet
  <1> QED BY <1>1, <1>2, <1>3, <1>4

\* Emulators, clients and the user's own instances come and go.
LEMMA OutsideQuiet ==
  ASSUME IInv, \/ EmulatorQuits \/ ClientFollows \/ ClientLeaves \/ OwnStarts
               \/ \E d \in Devices : ReaderFails(d)
  PROVE  Quiet
  <1>0. /\ used \in 0..MaxPresses
        /\ main.way \in main.spawned => Attended(alive, client, blind)
        /\ ~Flatpak => "left" \notin blind
        /\ watcher \in {"off", "watch", "asked", "forced", "done"}
    BY ServesOwn DEF IInv, TypeInv, TypeOK
  <1>5. trigger \in BOOLEAN /\ (trigger => held)
    BY DEF IInv, TypeInv, TypeOK, HeldInv
  <1>6. trigger' = trigger => QuietTrigger
    BY <1>5 DEF QuietTrigger
  <1>1. UNCHANGED <<target, main, serves, pids, pressed, queue, seen, trigger, held, watcher>>
    BY DEF EmulatorQuits, ClientFollows, ClientLeaves, OwnStarts, ReaderFails, threads, input
  <1>2. used' \in 0..MaxPresses
    <2>1. used' = used \/ (used < MaxPresses /\ used' = used + 1)
      BY DEF EmulatorQuits, ClientFollows, ClientLeaves, OwnStarts, ReaderFails, threads, input
    <2> QED BY <1>0, <2>1, RuntimeAssumption
  <1>3. /\ reader' \subseteq reader /\ client' \subseteq client /\ alive' \subseteq alive \cup {Late}
        /\ main.pc \in EarlySteps => alive' \subseteq alive
        /\ blind \subseteq blind' /\ blind' \subseteq blind \cup {"kill", "left"}
        /\ ~Flatpak => "left" \notin blind'
    BY <1>0 DEF EmulatorQuits, ClientFollows, ClientLeaves, OwnStarts, ReaderFails, EarlySteps, threads, input
  <1>4. main.way \in main.spawned => Attended(alive', client', blind')
    <2>1. CASE EmulatorQuits
      <3>1. PICK i \in alive : /\ alive' = alive \ {i} /\ client' \in {client, client \ {i}}
                               /\ Host = "darwin" => client' = client
        BY <2>1 DEF EmulatorQuits
      <3>2. blind' = blind
        BY <2>1 DEF EmulatorQuits
      <3> QED BY <1>0, <3>1, <3>2, ServesOwn DEF Attended
    <2>2. CASE ClientFollows
      <3>1. PICK w \in client : serves[w] \notin alive /\ client' = client \ {w}
        BY <2>2 DEF ClientFollows
      <3>2. alive' = alive /\ blind' = blind
        BY <2>2 DEF ClientFollows
      <3> QED BY <1>0, <3>1, <3>2 DEF Attended
    <2>3. CASE ClientLeaves
      BY <2>3 DEF ClientLeaves, Attended
    <2>4. CASE OwnStarts
      <3>1. alive' = alive \cup {Late} /\ client' = client /\ blind' = blind
        BY <2>4 DEF OwnStarts
      <3>2. serves[main.way] # Late
        <4>1. serves \in [Numbers -> Numbers \cup {Early}] /\ main.way \in Numbers
          BY WayNow DEF IInv, TypeInv, TypeOK, Numbers
        <4> QED BY <4>1 DEF Late, Early, Numbers
      <3> QED BY <1>0, <3>1, <3>2 DEF Attended
    <2>5. CASE \E d \in Devices : ReaderFails(d)
      BY <1>0, <2>5 DEF ReaderFails, threads
    <2> QED BY <2>1, <2>2, <2>3, <2>4, <2>5
  <1> QED BY <1>0, <1>1, <1>2, <1>3, <1>4, <1>6 DEF Quiet

-----------------------------------------------------------------------------
(* Events.                                                                 *)

\* The first event read moves the reader one event on.
LEMMA DownRead ==
  ASSUME NEW q \in Seq(Events), q # <<>>, NEW set, NEW b \in Buttons, NEW n \in 0..(Len(q) - 1),
         NEW left, left = IF q[1].down THEN set \cup {q[1].button} ELSE set \ {q[1].button}
  PROVE  Down(Tail(q), left, b, n) <=> Down(q, set, b, n + 1)
  <1>1. Len(q) \in Nat /\ n \in Nat /\ n + 1 <= Len(q)
    OBVIOUS
  <1>2. \A j \in 1..n : Tail(q)[j] = q[j + 1]
    BY <1>1
  <1>3. b \in left <=> (q[1].button = b /\ q[1].down) \/ (q[1].button # b /\ b \in set)
    OBVIOUS
  <1>4. ASSUME Down(Tail(q), left, b, n) PROVE Down(q, set, b, n + 1)
    <2>1. CASE \E j \in 1..n : /\ Tail(q)[j].button = b /\ Tail(q)[j].down
                               /\ \A k \in (j + 1)..n : Tail(q)[k].button # b
      <3>1. PICK j \in 1..n : /\ q[j + 1].button = b /\ q[j + 1].down
                              /\ \A k \in (j + 1)..n : Tail(q)[k].button # b
        BY <1>2, <2>1
      <3>2. \A k \in (j + 2)..(n + 1) : q[k].button # b
        <4>1. TAKE k \in (j + 2)..(n + 1)
        <4>2. k - 1 \in (j + 1)..n /\ k - 1 \in 1..n /\ (k - 1) + 1 = k
          BY <1>1, <3>1, <4>1
        <4> QED BY <1>2, <3>1, <4>2
      <3>3. j + 1 \in 1..(n + 1) /\ (j + 1) + 1 = j + 2
        BY <1>1, <3>1
      <3> QED BY <3>1, <3>2, <3>3 DEF Down
    <2>2. CASE b \in left /\ \A j \in 1..n : Tail(q)[j].button # b
      <3>1. \A k \in 2..(n + 1) : q[k].button # b
        <4>1. TAKE k \in 2..(n + 1)
        <4>2. k - 1 \in 1..n /\ (k - 1) + 1 = k
          BY <1>1, <4>1
        <4> QED BY <1>2, <2>2, <4>2
      <3>2. CASE q[1].button = b /\ q[1].down
        <4>1. 1 \in 1..(n + 1) /\ 1 + 1 = 2
          BY <1>1
        <4> QED BY <3>1, <3>2, <4>1 DEF Down
      <3>3. CASE q[1].button # b /\ b \in set
        <4>1. \A k \in 1..(n + 1) : q[k].button # b
          <5>1. TAKE k \in 1..(n + 1)
          <5>2. k = 1 \/ k \in 2..(n + 1)
            BY <1>1, <5>1
          <5> QED BY <3>1, <3>3, <5>2
        <4> QED BY <3>3, <4>1 DEF Down
      <3> QED BY <1>3, <2>2, <3>2, <3>3
    <2> QED BY <1>4, <2>1, <2>2 DEF Down
  <1>5. ASSUME Down(q, set, b, n + 1) PROVE Down(Tail(q), left, b, n)
    <2>1. CASE \E j \in 1..(n + 1) : /\ q[j].button = b /\ q[j].down
                                     /\ \A k \in (j + 1)..(n + 1) : q[k].button # b
      <3>1. PICK j \in 1..(n + 1) : /\ q[j].button = b /\ q[j].down
                                    /\ \A k \in (j + 1)..(n + 1) : q[k].button # b
        BY <2>1
      <3>2. CASE j = 1
        <4>1. \A k \in 1..n : Tail(q)[k].button # b
          <5>1. TAKE k \in 1..n
          <5>2. k + 1 \in (j + 1)..(n + 1)
            BY <1>1, <3>2, <5>1
          <5> QED BY <1>2, <3>1, <5>2
        <4> QED BY <1>3, <3>1, <3>2, <4>1 DEF Down
      <3>3. CASE j # 1
        <4>1. j - 1 \in 1..n /\ (j - 1) + 1 = j
          BY <1>1, <3>1, <3>3
        <4>2. \A k \in ((j - 1) + 1)..n : Tail(q)[k].button # b
          <5>1. TAKE k \in ((j - 1) + 1)..n
          <5>2. k + 1 \in (j + 1)..(n + 1) /\ k \in 1..n
            BY <1>1, <4>1, <5>1
          <5> QED BY <1>2, <3>1, <5>2
        <4>3. Tail(q)[j - 1].button = b /\ Tail(q)[j - 1].down
          BY <1>2, <3>1, <4>1
        <4> QED BY <4>1, <4>2, <4>3 DEF Down
      <3> QED BY <3>2, <3>3
    <2>2. CASE b \in set /\ \A j \in 1..(n + 1) : q[j].button # b
      <3>1. 1 \in 1..(n + 1)
        BY <1>1
      <3>2. \A k \in 1..n : Tail(q)[k].button # b
        <4>1. TAKE k \in 1..n
        <4>2. k + 1 \in 1..(n + 1)
          BY <1>1, <4>1
        <4> QED BY <1>2, <2>2, <4>2
      <3> QED BY <1>3, <2>2, <3>1, <3>2 DEF Down
    <2> QED BY <1>5, <2>1, <2>2 DEF Down
  <1> QED BY <1>4, <1>5

\* An event that is appended is the last word on its button, and says nothing
\* before its turn.
LEMMA DownAppend ==
  ASSUME NEW q \in Seq(Events), NEW e \in Events, NEW set, NEW b \in Buttons,
         NEW n \in 0..(Len(q) + 1)
  PROVE  /\ n <= Len(q) => (Down(Append(q, e), set, b, n) <=> Down(q, set, b, n))
         /\ n = Len(q) + 1 /\ e.button = b => (Down(Append(q, e), set, b, n) <=> e.down)
         /\ n = Len(q) + 1 /\ e.button # b =>
              (Down(Append(q, e), set, b, n) <=> Down(q, set, b, Len(q)))
  <1>1. Len(q) \in Nat /\ n \in Nat
    OBVIOUS
  <1>2. \A j \in 1..Len(q) : Append(q, e)[j] = q[j]
    OBVIOUS
  <1>3. Append(q, e)[Len(q) + 1] = e
    OBVIOUS
  <1>4. ASSUME NEW m \in 0..Len(q) PROVE Down(Append(q, e), set, b, m) <=> Down(q, set, b, m)
    <2>1. \A j \in 1..m : /\ Append(q, e)[j] = q[j]
                          /\ \A k \in (j + 1)..m : Append(q, e)[k] = q[k]
      BY <1>1, <1>2, <1>4
    <2> QED BY <2>1 DEF Down
  <1>5. ASSUME n = Len(q) + 1, e.button = b
        PROVE  Down(Append(q, e), set, b, n) <=> e.down
    <2>1. n \in 1..n /\ \A k \in (n + 1)..n : FALSE
      BY <1>1, <1>5
    <2>2. Append(q, e)[n] = e
      BY <1>3, <1>5
    <2>3. \A j \in 1..n : j = n \/ n \in (j + 1)..n
      BY <1>1, <1>5
    <2> QED BY <1>5, <2>1, <2>2, <2>3 DEF Down
  <1>6. ASSUME n = Len(q) + 1, e.button # b
        PROVE  Down(Append(q, e), set, b, n) <=> Down(Append(q, e), set, b, Len(q))
    <2>1. \A j \in 1..n : j = n \/ j \in 1..Len(q)
      BY <1>1, <1>6
    <2>2. \A j \in 1..Len(q) : /\ j \in 1..n /\ \A k \in (j + 1)..Len(q) : k \in (j + 1)..n
                               /\ \A k \in (j + 1)..n : k = n \/ k \in (j + 1)..Len(q)
      BY <1>1, <1>6
    <2>3. Append(q, e)[n] = e
      BY <1>3, <1>6
    <2> QED BY <1>6, <2>1, <2>2, <2>3 DEF Down
  <1>7. Len(q) \in 0..Len(q)
    BY <1>1
  <1> QED BY <1>1, <1>4, <1>5, <1>6, <1>7

\* What a reader that takes an event knows.
LEMMA ReadKeeps ==
  ASSUME IInv, NEW d \in Devices, ReadEvent(d)
  PROVE  IInv'
  <1>0. /\ d \in reader /\ queue[d] # <<>> /\ reader' \subseteq reader
        /\ queue' = [queue EXCEPT ![d] = Tail(@)]
        /\ seen' = [seen EXCEPT ![d] = Holds(seen[d], d)]
        /\ UNCHANGED <<target, main, client, alive, serves, pids, pressed, held, watcher, blind, used>>
    BY DEF ReadEvent, SeenByReader, threads
  <1>1. trigger' = (trigger \/ seen'[d] = Buttons)
    BY DEF ReadEvent
  <1>2. /\ queue \in [Devices -> Seq(Events)] /\ seen \in [Devices -> SUBSET Buttons]
        /\ reader \subseteq Devices /\ queue[d] \in Seq(Events) /\ trigger \in BOOLEAN
    BY DEF IInv, TypeInv, TypeOK
  <1>3. Head(queue[d]) = queue[d][1] /\ queue[d][1] \in Events /\ Len(queue[d]) \in Nat
        /\ Len(queue[d]) >= 1 /\ Tail(queue[d]) \in Seq(Events)
        /\ Len(Tail(queue[d])) = Len(queue[d]) - 1
    BY <1>0, <1>2
  <1>4. queue'[d] = Tail(queue[d]) /\ \A e \in Devices \ {d} : queue'[e] = queue[e]
    BY <1>0, <1>2
  <1>5. /\ seen'[d] = IF queue[d][1].down THEN seen[d] \cup {queue[d][1].button}
                      ELSE seen[d] \ {queue[d][1].button}
        /\ \A e \in Devices \ {d} : seen'[e] = seen[e]
    BY <1>0, <1>2, <1>3 DEF Holds
  <1>6. queue' \in [Devices -> Seq(Events)] /\ seen' \in [Devices -> SUBSET Buttons]
    <2>1. seen'[d] \subseteq Buttons
      BY <1>2, <1>3, <1>5 DEF Events
    <2> QED BY <1>0, <1>2, <1>3, <1>5, <2>1
  <1>7. \A b \in Buttons : \A n \in 0..(Len(queue[d]) - 1) :
          Down(queue'[d], seen'[d], b, n) <=> Down(queue[d], seen[d], b, n + 1)
    BY <1>0, <1>2, <1>4, <1>5, DownRead
  <1>8. \A e \in Devices \ {d} : \A b \in Buttons : \A n \in 0..Len(queue[e]) :
          Down(queue'[e], seen'[e], b, n) <=> Down(queue[e], seen[e], b, n)
    BY <1>4, <1>5
  <1>9. ReaderInv'
    <2>1. ASSUME NEW e \in reader', e # d
          PROVE  /\ \A b \in Buttons : Down(queue'[e], seen'[e], b, Len(queue[e])) <=> b \in pressed[e]
                 /\ \A n \in 0..Len(queue[e]) : (\A b \in Buttons : Down(queue'[e], seen'[e], b, n)) => held
      <3>1. e \in reader /\ e \in Devices \ {d} /\ queue[e] \in Seq(Events)
        BY <1>0, <1>2, <2>1
      <3>2. queue'[e] = queue[e] /\ Len(queue[e]) \in 0..Len(queue[e])
        BY <1>4, <3>1
      <3> QED BY <1>8, <3>1, <3>2 DEF IInv, ReaderInv, DownAfter
    <2>2. /\ \A b \in Buttons : Down(queue'[d], seen'[d], b, Len(queue[d]) - 1) <=> b \in pressed[d]
          /\ \A n \in 0..(Len(queue[d]) - 1) : (\A b \in Buttons : Down(queue'[d], seen'[d], b, n)) => held
      <3>1. /\ Len(queue[d]) - 1 \in 0..(Len(queue[d]) - 1) /\ (Len(queue[d]) - 1) + 1 = Len(queue[d])
            /\ \A n \in 0..(Len(queue[d]) - 1) : n + 1 \in 0..Len(queue[d])
        BY <1>3
      <3> QED BY <1>0, <1>7, <3>1 DEF IInv, ReaderInv, DownAfter
    <2> QED BY <1>0, <1>2, <1>3, <1>4, <2>1, <2>2 DEF ReaderInv, DownAfter
  <1>10. trigger' \in BOOLEAN /\ (trigger' => held)
    <2>1. trigger => held
      BY DEF IInv, HeldInv
    <2>2. seen'[d] = Buttons => held
      <3>1. 0 \in 0..(Len(queue[d]) - 1) /\ 0 + 1 = 1 /\ 1 \in 0..Len(queue[d]) /\ 1..0 = {}
        BY <1>3
      <3>2. \A b \in Buttons : b \in seen'[d] => Down(queue[d], seen[d], b, 1)
        BY ZenonT(60), <1>7, <3>1 DEF Down
      <3> QED BY <1>0, <3>1, <3>2 DEF IInv, ReaderInv, DownAfter
    <2> QED BY <1>1, <1>2, <2>1, <2>2
  <1>11. TypeInv'
    BY <1>0, <1>6, <1>10 DEF IInv, TypeInv, TypeOK
  <1>12. EarlyInv'
    <2>1. main.pc \notin EarlySteps
      BY <1>0 DEF IInv, EarlyInv, Unwatched
    <2> QED BY <1>0, <2>1 DEF EarlyInv
  <1>13. HeldInv'
    BY <1>0, <1>10 DEF IInv, HeldInv
  <1>14. HookInv' /\ OwnInv' /\ LaunchInv' /\ StateInv' /\ UploadAfterExit'
    BY <1>0 DEF IInv, HookInv, OwnInv, LaunchInv, Attended, StateInv, UploadAfterExit, Flatpak, Host, Way
  <1> QED BY <1>9, <1>11, <1>12, <1>13, <1>14 DEF IInv

\* What a press or a release adds.
LEMMA EventKeeps ==
  ASSUME IInv, NEW d \in Devices, NEW b \in Buttons, Event(d, b)
  PROVE  IInv'
  <1> DEFINE ev == [button |-> b, down |-> b \notin pressed[d]]
             after == IF b \in pressed[d] THEN pressed[d] \ {b} ELSE pressed[d] \cup {b}
  <1>0. /\ main.pc = "wait" /\ used < MaxPresses /\ used' = used + 1
        /\ pressed' = [pressed EXCEPT ![d] = after]
        /\ queue' = IF d \in reader THEN [queue EXCEPT ![d] = Append(@, ev)] ELSE queue
        /\ UNCHANGED <<target, main, client, alive, serves, pids, seen, reader, watcher, blind>>
    BY DEF Event, threads
  <1>1. held' = (held \/ pressed'[d] = Buttons) /\ trigger' = trigger
    BY DEF Event
  <1>2. /\ queue \in [Devices -> Seq(Events)] /\ pressed \in [Devices -> SUBSET Buttons]
        /\ reader \subseteq Devices /\ queue[d] \in Seq(Events) /\ held \in BOOLEAN
        /\ used \in 0..MaxPresses
    BY DEF IInv, TypeInv, TypeOK
  <1>3. /\ ev \in Events /\ ev.button = b /\ (ev.down <=> b \notin pressed[d])
        /\ after \subseteq Buttons /\ \A c \in Buttons \ {b} : c \in after <=> c \in pressed[d]
        /\ b \in after <=> b \notin pressed[d]
    BY <1>2 DEF Events
  <1> HIDE DEF ev, after
  <1>4. pressed'[d] = after /\ \A e \in Devices \ {d} : pressed'[e] = pressed[e]
    BY <1>0, <1>2
  <1>5. /\ d \in reader => queue'[d] = Append(queue[d], ev)
        /\ \A e \in reader \ {d} : queue'[e] = queue[e]
    BY <1>0, <1>2
  <1>6. queue' \in [Devices -> Seq(Events)] /\ pressed' \in [Devices -> SUBSET Buttons]
    BY <1>0, <1>2, <1>3
  <1>7. used' \in 0..MaxPresses
    BY <1>0, <1>2, RuntimeAssumption
  <1>8. held' \in BOOLEAN /\ (held => held') /\ (after = Buttons => held')
    BY <1>1, <1>2, <1>4
  <1>9. ReaderInv'
    <2>1. ASSUME NEW e \in reader', e # d
          PROVE  /\ \A c \in Buttons : Down(queue'[e], seen'[e], c, Len(queue'[e])) <=> c \in pressed'[e]
                 /\ \A n \in 0..Len(queue'[e]) : (\A c \in Buttons : Down(queue'[e], seen'[e], c, n)) => held'
      <3>1. e \in reader /\ e \in Devices \ {d} /\ queue'[e] = queue[e] /\ pressed'[e] = pressed[e]
        BY <1>0, <1>2, <1>4, <1>5, <2>1
      <3>2. \A c, n : Down(queue'[e], seen'[e], c, n) <=> Down(queue[e], seen[e], c, n)
        BY <1>0, <3>1
      <3> QED BY <1>8, <3>1, <3>2 DEF IInv, ReaderInv, DownAfter
    <2>2. ASSUME d \in reader'
          PROVE  /\ \A c \in Buttons : Down(queue'[d], seen'[d], c, Len(queue'[d])) <=> c \in pressed'[d]
                 /\ \A n \in 0..Len(queue'[d]) : (\A c \in Buttons : Down(queue'[d], seen'[d], c, n)) => held'
      <3> DEFINE q == queue[d]
      <3>1. q \in Seq(Events) /\ queue'[d] = Append(q, ev) /\ Len(queue'[d]) = Len(q) + 1
            /\ Len(q) \in Nat /\ d \in reader
        BY <1>0, <1>2, <1>3, <1>5, <2>2
      <3>2. \A c \in Buttons, n \in 0..(Len(q) + 1) : n <= Len(q) =>
              (Down(queue'[d], seen'[d], c, n) <=> Down(queue[d], seen[d], c, n))
        <4>1. TAKE c \in Buttons, n \in 0..(Len(q) + 1)
        <4>2. n <= Len(q) => (Down(Append(q, ev), seen[d], c, n) <=> Down(q, seen[d], c, n))
          BY <1>3, <3>1, <4>1, DownAppend
        <4> QED BY <1>0, <3>1, <4>2
      <3>3. ASSUME NEW c \in Buttons, NEW n \in 0..(Len(q) + 1), n = Len(q) + 1
            PROVE  Down(queue'[d], seen'[d], c, n) <=>
                     (c = b /\ b \notin pressed[d]) \/ (c # b /\ Down(q, seen[d], c, Len(q)))
        <4>1. CASE c = b
          <5>1. Down(Append(q, ev), seen[d], c, n) <=> ev.down
            BY ZenonT(60), <1>3, <3>1, <3>3, <4>1, DownAppend
          <5> QED BY <1>0, <1>3, <3>1, <4>1, <5>1
        <4>2. CASE c # b
          <5>1. Down(Append(q, ev), seen[d], c, n) <=> Down(q, seen[d], c, Len(q))
            BY <1>3, <3>1, <3>3, <4>2, DownAppend
          <5> QED BY <1>0, <3>1, <4>2, <5>1
        <4> QED BY <4>1, <4>2
      <3>4. \A c \in Buttons : Down(queue[d], seen[d], c, Len(q)) <=> c \in pressed[d]
        BY <3>1 DEF IInv, ReaderInv, DownAfter
      <3>5. \A c \in Buttons : Down(queue'[d], seen'[d], c, Len(q) + 1) <=> c \in after
        <4>1. PICK n \in 0..(Len(q) + 1) : n = Len(q) + 1
          BY <3>1
        <4> QED BY <1>3, <3>3, <3>4, <4>1
      <3>6. ASSUME NEW n \in 0..(Len(q) + 1), \A c \in Buttons : Down(queue'[d], seen'[d], c, n)
            PROVE  held'
        <4>1. CASE n <= Len(q)
          <5>1. n \in 0..Len(q)
            BY <3>1, <3>6, <4>1
          <5>2. \A c \in Buttons : Down(queue[d], seen[d], c, n)
            BY <3>2, <3>6, <4>1
          <5> QED BY <1>8, <3>1, <5>1, <5>2 DEF IInv, ReaderInv, DownAfter
        <4>2. CASE ~(n <= Len(q))
          <5>1. n = Len(q) + 1
            BY <3>1, <3>6, <4>2
          <5>2. after = Buttons
            BY <1>3, <3>5, <3>6, <5>1
          <5> QED BY <1>8, <5>2
        <4> QED BY <4>1, <4>2
      <3> QED BY <1>4, <3>1, <3>5, <3>6
    <2> QED BY <2>1, <2>2 DEF ReaderInv, DownAfter
  <1>10. HeldInv'
    BY <1>0, <1>1, <1>4, <1>8 DEF IInv, HeldInv
  <1>11. TypeInv'
    BY <1>0, <1>1, <1>6, <1>7, <1>8 DEF IInv, TypeInv, TypeOK
  <1>12. EarlyInv' /\ HookInv' /\ UploadAfterExit'
    BY <1>0 DEF IInv, EarlyInv, EarlySteps, HookInv, UploadAfterExit, Way
  <1>13. OwnInv' /\ LaunchInv' /\ StateInv'
    BY <1>0 DEF IInv, OwnInv, LaunchInv, Attended, StateInv, Flatpak, Host, Way
  <1> QED BY <1>9, <1>10, <1>11, <1>12, <1>13 DEF IInv

-----------------------------------------------------------------------------
(* The theorems.                                                           *)

\* Every step keeps the invariant.
LEMMA RuntimeStep ==
  ASSUME IInv, [Next]_vars
  PROVE  IInv'
  <1>1. CASE MainStep
    BY <1>1, PrepareKeeps, NextWayKeeps, SpawnKeeps, StartWatcherKeeps, WaitKeeps, EndKeeps DEF MainStep
  <1>2. CASE WatcherStep
    BY <1>2, WatcherQuiet, QuietOutside DEF WatcherStep
  <1>3. CASE \E d \in Devices : ReaderStep(d)
    BY <1>3, ReadKeeps DEF ReaderStep
  <1>4. CASE \E d \in Devices : \E b \in Buttons : Event(d, b)
    BY <1>4, EventKeeps
  <1>5. CASE Outside /\ ~\E d \in Devices : \E b \in Buttons : Event(d, b)
    BY <1>5, OutsideQuiet, QuietOutside DEF Outside
  <1>6. CASE UNCHANGED vars
    <2>1. UNCHANGED <<target, main, client, alive, serves, pids, pressed, queue, seen, reader,
                      trigger, watcher, held, blind, used>>
      BY <1>6 DEF vars, threads, input
    <2> QED BY <2>1 DEF IInv, TypeInv, TypeOK, HookInv, EarlyInv, Unwatched, ReaderInv, DownAfter,
              HeldInv, OwnInv, LaunchInv, Attended, StateInv, UploadAfterExit, Flatpak, Host, Way
  <1> QED BY <1>1, <1>2, <1>3, <1>4, <1>5, <1>6 DEF Next

\* It holds at the start: nothing has been started and nothing pressed.
LEMMA RuntimeInit == Init => IInv
  <1> SUFFICES ASSUME Init PROVE IInv
    OBVIOUS
  <1>1. /\ target \in Targets /\ client = {} /\ alive \subseteq {Early} /\ pids = {} /\ blind = {}
        /\ serves = [w \in Numbers |-> w] /\ Late \notin alive
        /\ Unwatched /\ used = 0
    BY DEF Init, Unwatched, Early, Late
  <1>2. /\ main \in Mains /\ main.pc = "resolve" /\ main.way = 1 /\ ~main.dirty
        /\ main.spawned = {} /\ main.broken = {}
    BY DEF Init, Mains, Steps, Numbers
  <1>3. TypeInv
    <2>1. 1 \in 1..Len(Ways(target))
      BY <1>1, WaysOf DEF Numbers
    <2>2. queue \in [Devices -> Seq(Events)]
      BY <1>1 DEF Unwatched
    <2>3. trigger \in BOOLEAN /\ held \in BOOLEAN
      BY DEF Init
    <2> QED BY <1>1, <1>2, <2>1, <2>2, <2>3, RuntimeAssumption DEF TypeInv, TypeOK, Unwatched
  <1>4. ReaderInv /\ HeldInv
    <2>1. \A d \in Devices : pressed[d] # Buttons
      BY <1>1 DEF Unwatched, Buttons
    <2> QED BY <1>1, <2>1 DEF ReaderInv, HeldInv, Unwatched
  <1>5. HookInv /\ EarlyInv /\ OwnInv /\ LaunchInv /\ StateInv /\ UploadAfterExit
    BY <1>1, <1>2 DEF HookInv, EarlyInv, OwnInv, LaunchInv, StateInv, UploadAfterExit, Unwatched
  <1> QED BY <1>3, <1>4, <1>5 DEF IInv

\* The invariant holds of every reachable state.
THEOREM RuntimeInvariant == Spec => []IInv
  <1> QED BY RuntimeInit, RuntimeStep, PTL DEF Spec

\* Whatever the devices, the variables of a start have their types.
THEOREM TypeCorrect == Spec => []TypeOK
  <1>1. IInv => TypeOK
    BY DEF IInv, TypeInv
  <1> QED BY <1>1, RuntimeInvariant, PTL

\* postsync after _wait_for_session_exit or Popen.wait: an emulator of the launch
\* that still runs when the save is read is one whose hook broke, or flatpak ps
\* failed at the last look, or flatpak run left it behind where nothing else
\* looks; and what a sync changed in the state is on file at the end, through
\* every way of launching.
THEOREM UploadsAfterTheExit == Spec => []UploadAfterExit
  <1>1. IInv => UploadAfterExit
    BY DEF IInv
  <1> QED BY <1>1, RuntimeInvariant, PTL

\* The combination is only ever taken from one controller that had both buttons
\* down, however many events its reader is behind; and the signals that follow,
\* whether pgrep works at each of them or not, spare the instance the user had
\* open, unless pgrep failed before the launch.
THEOREM OnlyTheCombinationEnds == Spec => ComboOnly
  <1>1. IInv /\ IInv' /\ [Next]_vars =>
          [/\ trigger' => held'
           /\ Terminate \/ KillClient => (Early \in alive \ alive' => "before" \in blind)]_vars
    <2> SUFFICES ASSUME IInv, Next, IInv'
                 PROVE  /\ trigger' => held'
                        /\ Terminate \/ KillClient => (Early \in alive \ alive' => "before" \in blind)
      OBVIOUS
    <2>1. trigger' => held'
      BY DEF IInv, HeldInv
    <2>2. ASSUME Terminate \/ KillClient, Early \in alive, Early \notin alive' PROVE "before" \in blind
      <3>1. watcher # "off" /\ \E deadly \in BOOLEAN : Signal(deadly)
        BY <2>2 DEF Terminate, KillClient
      <3>2. CASE Host = "darwin"
        <4>1. PICK listed \in BOOLEAN : alive \ alive' \subseteq Told(listed)
          BY <3>1, <3>2 DEF Signal
        <4>2. Early \notin pids
          BY <2>2, <4>1 DEF Told
        <4> QED BY <2>2, <3>1, <3>2, <4>2 DEF IInv, OwnInv
      <3>3. CASE Host # "darwin"
        <4>1. client \subseteq Numbers
          BY DEF IInv, TypeInv, TypeOK, Mains
        <4>2. alive \ alive' \subseteq client
          BY <3>1, <3>3 DEF Signal
        <4> QED BY <2>2, <4>1, <4>2 DEF Early, Numbers
      <3> QED BY <3>2, <3>3
    <2> QED BY <2>1, <2>2
  <1> QED BY <1>1, RuntimeInvariant, PTL DEF Spec, ComboOnly
=============================================================================
