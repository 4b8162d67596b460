---------------------------- MODULE ShortcutRuntime ----------------------------
(***************************************************************************)
(* One start of a Steam shortcut (shortcuts/shortcut_launch.py and         *)
(* runtime.py) with the exit hook that ends the emulator when Select and   *)
(* Start are held on one controller (controllers/azahar_exit_hook.py).     *)
(*                                                                         *)
(* The main thread resolves the payload, prepares, syncs, starts the       *)
(* emulator through the first way that works, waits for its end and syncs  *)
(* again.  A coordinator thread watches for the combination; on Linux one  *)
(* more thread per device blocks in read and shares an event with it.  The *)
(* emulator, the user and the devices are external.                        *)
(***************************************************************************)
EXTENDS Naturals, FiniteSets, Sequences

CONSTANTS
    Devices,       \* input devices
    MaxPresses     \* bound: button events, and starts of the user's own emulator

ASSUME RuntimeAssumption == IsFiniteSet(Devices) /\ MaxPresses \in Nat

Buttons == {"select", "start"}

VARIABLES
    target,       \* host and emulator of the payload
    main,         \* the main thread: step, way of launching, what it knows
    client,       \* ways whose process, as Popen sees it, is running
    alive,        \* instances of the emulator that are running
    serves,       \* the instance each way runs its game in
    pids,         \* instances found before the spawn (macOS)
    pressed,      \* buttons held on each device
    queue,        \* events of each device that nobody has read
    seen,         \* buttons each device's reader believes to be held
    reader,       \* devices whose reader thread runs
    trigger,      \* the threading.Event
    watcher,      \* step of the coordinator
    held,         \* history: both buttons were down on one device
    blind,        \* history: what was overlooked, and what came of it
    used          \* events so far, the bounded counter

threads == <<client, alive, serves, pids>>
input == <<pressed, queue, seen, reader, trigger, held>>
vars == <<target, main, threads, input, watcher, blind, used>>

(* run_target_with_optional_exit_hook and _run_target: what is tried, in   *)
(* order.  A hooked way starts the coordinator.                            *)
Targets == {<<"windows", "azahar">>, <<"darwin", "azahar">>, <<"darwin", "other">>,
            <<"linux", "dolphin">>, <<"linux", "azahar">>, <<"linux", "other">>}
Ways(t) ==
    CASE t = <<"windows", "azahar">> -> <<"hook", "direct">>
      [] t = <<"darwin", "azahar">>  -> <<"hook", "document", "direct", "bundle">>
      [] t = <<"darwin", "other">>   -> <<"bundle">>
      [] t = <<"linux", "dolphin">>  -> <<"hook", "direct">>
      [] t = <<"linux", "azahar">>   -> <<"hook">>
      [] OTHER                       -> <<"direct">>
Host == target[1]
Flatpak == Host = "linux" /\ target[2] # "other"
Way == Ways(target)[main.way]
Numbers == 1 .. 4
(* An instance has the number of the way that started it; the user has one *)
(* open before the launch, or opens one during the game.                   *)
Early == 5
Late == 6
Step(pc) == main' = [main EXCEPT !.pc = pc]

(* _session_active: the client, or any instance under the application id,  *)
(* which a flatpak ps that fails does not list.                            *)
SessionActive(listed) ==
    \/ main.way \in client
    \/ Flatpak /\ listed /\ alive # {}

Init ==
    /\ target \in Targets
    /\ main = [pc |-> "resolve", way |-> 1, state |-> FALSE, dirty |-> FALSE, changed |-> FALSE,
               failed |-> FALSE, broken |-> {}, spawned |-> {}, code |-> "none"]
    /\ client = {} /\ alive \in {{}, {Early}} /\ serves = [w \in Numbers |-> w] /\ pids = {}
    /\ pressed = [d \in Devices |-> {}] /\ queue = [d \in Devices |-> <<>>]
    /\ seen = [d \in Devices |-> {}] /\ reader = {}
    /\ trigger = FALSE /\ held = FALSE /\ blind = {}
    /\ watcher = "off" /\ used = 0

-----------------------------------------------------------------------------
(* run_shortcut_launch up to the spawn.  Only an unusable payload and a    *)
(* runtime that cannot be prepared keep the emulator from being started.   *)
Refuse == main' = [main EXCEPT !.pc = "done", !.code = "refused"]
Before(pc) == main.pc = pc /\ UNCHANGED <<target, threads, input, watcher, blind, used>>

Resolve ==
    /\ Before("resolve")
    /\ Refuse \/ \E s \in BOOLEAN : main' = [main EXCEPT !.pc = "prepare", !.state = s]
Prepare ==
    /\ Before("prepare")
    /\ Step("presync") \/ (~main.state /\ Host = "darwin" /\ target[2] = "other" /\ Refuse)

(* The controllers and the memory cards are best effort, and so is the     *)
(* sync before the launch, whose changes to the state are in memory only.  *)
Presync ==
    /\ Before("presync")
    /\ \/ Step("spawn")
       \/ main.state /\ main' = [main EXCEPT !.pc = "spawn", !.dirty = TRUE, !.changed = TRUE]
       \/ main.state /\ \E d \in BOOLEAN :
            main' = [main EXCEPT !.pc = "spawn", !.dirty = d, !.failed = TRUE]
       \/ main.state /\ Host = "darwin" /\ target[2] = "other" /\ Refuse

NextWayOneMore ==
    main' = IF main.way <= Len(Ways(target))
            THEN [main EXCEPT !.pc = "spawn", !.way = @ + 1]
            ELSE [main EXCEPT !.pc = "save", !.code = "failed"]
NextWayEnds ==
    main' = IF main.way < Len(Ways(target))
            THEN [main EXCEPT !.pc = "spawn", !.way = @ + 1]
            ELSE [main EXCEPT !.pc = "done", !.code = "failed"]
NextWay ==
    main' = IF main.way < Len(Ways(target))
            THEN [main EXCEPT !.pc = "spawn", !.way = @ + 1]
            ELSE [main EXCEPT !.pc = "save", !.code = "failed"]
(* A way that cannot be spawned gives way to the next one, the last one    *)
(* ends the launch without a sync.  For Azahar on Linux the hook is a      *)
(* process of its own: whatever breaks in it is its exit to the main one.  *)
Returned == [main EXCEPT !.pc = IF main.state THEN "postsync" ELSE "save", !.code = "ended"]
FailsToSpawn ==
    /\ Before("spawn")
    /\ NextWay \/ (target = <<"linux", "azahar">> /\ main' = Returned)

(* pgrep by the name of the executable; one that fails finds nothing.      *)
InstancesFound(listed) == IF listed THEN alive ELSE {}
(* open without -n goes to an instance of the bundle that is running, if   *)
(* that is the copy which runs; every other way starts its own.            *)
Hosts == {main.way} \cup (IF Host = "darwin" /\ Way # "direct" THEN alive ELSE {})
Spawn ==
    /\ main.pc = "spawn"
    /\ client' = client \cup {main.way}
    /\ \E i \in Hosts : /\ serves' = [serves EXCEPT ![main.way] = i]
                        /\ alive' = alive \cup {i}
    /\ IF Host = "darwin" /\ Way = "hook"
       THEN \E listed \in BOOLEAN :
              /\ pids' = InstancesFound(listed)
              /\ blind' = IF listed \/ alive = {} THEN blind ELSE blind \cup {"before"}
       ELSE UNCHANGED <<pids, blind>>
    /\ main' = [main EXCEPT !.pc = IF Way = "hook" THEN "hook" ELSE "wait",
                            !.spawned = @ \cup {main.way}]
    /\ UNCHANGED <<target, input, watcher, used>>

(* The hook is set up with the emulator already running; an exception here *)
(* is taken for a launch that failed, or for the end of the game where the *)
(* hook is a process of its own.                                           *)
HookBreaks ==
    /\ Before("hook")
    /\ main' = IF target = <<"linux", "azahar">>
               THEN [Returned EXCEPT !.broken = @ \cup {main.way}]
               ELSE [main EXCEPT !.pc = "spawn", !.way = @ + 1, !.broken = @ \cup {main.way}]

StartWatcher ==
    /\ main.pc = "hook"
    /\ Step("wait")
    /\ \E open \in SUBSET Devices :
        /\ reader' = IF Flatpak THEN open ELSE {}
        /\ watcher' = IF open = {} THEN "off" ELSE "watch"
    /\ UNCHANGED <<target, threads, pressed, queue, seen, trigger, held, blind, used>>

(* _wait_for_session_exit, or Popen.wait.                                  *)
EndedClientOnly(listed) == main.way \notin client
Ended(listed) ==
    IF Flatpak /\ Way = "hook" THEN ~SessionActive(listed) ELSE main.way \notin client
Wait ==
    /\ main.pc = "wait"
    /\ \/ Ended(TRUE) /\ UNCHANGED blind
       \/ ~Ended(TRUE) /\ Ended(FALSE) /\ blind' = blind \cup {"end"}
    /\ main' = Returned
    /\ UNCHANGED <<target, threads, input, watcher, used>>

Postsync ==
    /\ Before("postsync")
    /\ \/ \E d \in BOOLEAN :
            main' = [main EXCEPT !.pc = "save", !.dirty = @ \/ d, !.changed = @ \/ d]
       \/ \E d \in BOOLEAN : main' = [main EXCEPT !.pc = "save", !.dirty = @ \/ d, !.failed = TRUE]

(* The state is saved when a sync says it changed; one that failed halfway *)
(* says nothing.                                                           *)
Save ==
    /\ Before("save")
    /\ main' = [main EXCEPT !.pc = "done", !.dirty = @ /\ ~main.changed]

-----------------------------------------------------------------------------
(* The reader threads and the coordinator.                                 *)
Holds(buttons, d) == IF Head(queue[d]).down THEN buttons \cup {Head(queue[d]).button}
                     ELSE buttons \ {Head(queue[d]).button}
SeenByAny(d) == Holds(UNION {seen[e] : e \in Devices}, d)
SeenByReader(d) == Holds(seen[d], d)
ReadEvent(d) ==
    /\ d \in reader /\ queue[d] # <<>>
    /\ queue' = [queue EXCEPT ![d] = Tail(@)]
    /\ seen' = [seen EXCEPT ![d] = SeenByReader(d)]
    /\ trigger' = (trigger \/ seen'[d] = Buttons)
    /\ \E listed \in BOOLEAN :
         reader' = IF trigger' \/ ~SessionActive(listed) THEN reader \ {d} ELSE reader
    /\ UNCHANGED <<target, main, threads, pressed, held, watcher, blind, used>>

ReaderFails(d) ==
    /\ d \in reader /\ queue[d] = <<>>
    /\ reader' = reader \ {d}
    /\ UNCHANGED <<target, main, threads, pressed, queue, seen, trigger, held, watcher, blind, used>>

(* XInput and GameController are polled: the coordinator sees what is held *)
(* now.                                                                    *)
Poll ==
    /\ watcher = "watch" /\ Host # "linux" /\ main.way \in client
    /\ \E d \in Devices : pressed[d] = Buttons
    /\ trigger' = TRUE
    /\ UNCHANGED <<target, main, threads, pressed, queue, seen, reader, held, watcher, blind, used>>

StopWatching ==
    /\ watcher = "watch" /\ \E listed \in BOOLEAN : ~SessionActive(listed)
    /\ watcher' = "done"
    /\ UNCHANGED <<target, main, threads, input, blind, used>>

(* flatpak kill and the quit request name the application, not a process:  *)
(* they reach every instance, and an emulator may not obey the latter.     *)
Ask ==
    /\ watcher = "watch" /\ trigger /\ SessionActive(TRUE)
    /\ watcher' = "asked"
    /\ \/ UNCHANGED alive
       \/ Flatpak /\ alive' = {}
       \/ Host = "darwin" /\ alive' \in SUBSET alive
       \/ Host = "windows" /\ alive' = alive \ {main.way}
    /\ UNCHANGED <<target, main, client, serves, pids, input, blind, used>>

(* Two seconds later: a signal to the client, or on macOS to the instances *)
(* that pgrep lists now and did not list before the launch.                *)
ToldAll(listed) == InstancesFound(listed)
Told(listed) == InstancesFound(listed) \ pids
Signal(deadly) ==
    IF Host = "darwin"
    THEN /\ UNCHANGED client
         /\ \E listed \in BOOLEAN :
              /\ alive' \in {alive \ s : s \in IF deadly THEN {Told(listed)} ELSE SUBSET Told(listed)}
              /\ blind' = IF listed \/ ~deadly THEN blind ELSE blind \cup {"kill"}
    ELSE /\ client' \in IF deadly \/ Host = "windows" THEN {client \ {main.way}}
                        ELSE {client, client \ {main.way}}
         /\ alive' \in {alive \ (client \ client')} \cup (IF Flatpak THEN {alive} ELSE {})
         /\ UNCHANGED blind

TerminateLast ==
    /\ watcher = "asked" /\ main.way \in client
    /\ watcher' = "done"
    /\ Signal(FALSE)
    /\ UNCHANGED <<target, main, serves, pids, input, used>>
Terminate ==
    /\ watcher = "asked" /\ main.way \in client
    /\ watcher' = IF Host = "windows" THEN "done" ELSE "forced"
    /\ Signal(FALSE)
    /\ UNCHANGED <<target, main, serves, pids, input, used>>
KillClient ==
    /\ watcher = "forced" /\ main.way \in client
    /\ watcher' = "done"
    /\ Signal(TRUE)
    /\ UNCHANGED <<target, main, serves, pids, input, used>>

(* The client is gone but an instance may still run: the coordinator       *)
(* leaves.                                                                 *)
GiveUp ==
    /\ watcher \in {"asked", "forced"} /\ main.way \notin client
    /\ watcher' = "done"
    /\ UNCHANGED <<target, main, threads, input, blind, used>>

-----------------------------------------------------------------------------
(* The emulator, its user, and the devices.                                *)
EmulatorQuits ==
    /\ \E i \in alive :
        /\ alive' = alive \ {i}
        /\ client' = IF Host = "windows" \/ (Host = "linux" /\ ~Flatpak) THEN client \ {i} ELSE client
    /\ UNCHANGED <<target, main, serves, pids, input, watcher, blind, used>>

ClientFollows ==
    /\ \E w \in client : serves[w] \notin alive /\ client' = client \ {w}
    /\ UNCHANGED <<target, main, alive, serves, pids, input, watcher, blind, used>>

(* flatpak run may end before what it started.                             *)
ClientLeaves ==
    /\ Flatpak
    /\ \E w \in client : serves[w] \in alive /\ client' = client \ {w}
    /\ blind' = blind \cup {"left"}
    /\ UNCHANGED <<target, main, alive, serves, pids, input, watcher, used>>

(* A button goes down or up; without a reader nobody takes the event.      *)
Event(d, b) ==
    /\ used < MaxPresses /\ main.pc = "wait"
    /\ used' = used + 1
    /\ pressed' = [pressed EXCEPT ![d] = IF b \in @ THEN @ \ {b} ELSE @ \cup {b}]
    /\ queue' = IF d \in reader
                THEN [queue EXCEPT ![d] = Append(@, [button |-> b, down |-> b \notin pressed[d]])]
                ELSE queue
    /\ held' = (held \/ pressed'[d] = Buttons)
    /\ UNCHANGED <<target, main, threads, seen, reader, trigger, watcher, blind>>

OwnStarts ==
    /\ used < MaxPresses /\ main.pc = "wait" /\ Late \notin alive
    /\ used' = used + 1
    /\ alive' = alive \cup {Late}
    /\ UNCHANGED <<target, main, client, serves, pids, input, watcher, blind>>

MainStep ==
    \/ Resolve \/ Prepare \/ Presync \/ FailsToSpawn \/ Spawn \/ HookBreaks \/ StartWatcher
    \/ Wait \/ Postsync \/ Save
(* The threads are daemons: they end with the main thread.                 *)
WatcherStep ==
    main.pc # "done" /\ (StopWatching \/ Poll \/ Ask \/ Terminate \/ KillClient \/ GiveUp)
ReaderStep(d) == main.pc # "done" /\ ReadEvent(d)
Outside ==
    \/ EmulatorQuits \/ ClientFollows \/ ClientLeaves \/ OwnStarts
    \/ \E d \in Devices : ReaderFails(d) \/ \E b \in Buttons : Event(d, b)
Next == MainStep \/ WatcherStep \/ (\E d \in Devices : ReaderStep(d)) \/ Outside

(* Threads are scheduled; the process under Popen follows its emulator.    *)
(* Nothing makes the user quit.                                            *)
Fairness ==
    /\ WF_vars(MainStep) /\ WF_vars(WatcherStep) /\ WF_vars(ClientFollows)
    /\ \A d \in Devices : WF_vars(ReaderStep(d))
Spec == Init /\ [][Next]_vars /\ Fairness

-----------------------------------------------------------------------------
(* All variables are of their types.                                       *)
TypeOK ==
    /\ target \in Targets /\ main.way \in 1 .. Len(Ways(target))
    /\ client \subseteq main.spawned /\ alive \subseteq main.spawned \cup {Early, Late}
    /\ serves \in [Numbers -> Numbers \cup {Early}] /\ pids \subseteq {Early}
    /\ pressed \in [Devices -> SUBSET Buttons] /\ seen \in [Devices -> SUBSET Buttons]
    /\ reader \subseteq Devices /\ trigger \in BOOLEAN /\ held \in BOOLEAN
    /\ watcher \in {"off", "watch", "asked", "forced", "done"}
    /\ blind \subseteq {"before", "end", "kill", "left"} /\ used \in 0 .. MaxPresses

(* The emulator is only ended for both buttons held on one controller, not *)
(* for a button on each of two, however late the events are read; and the  *)
(* signals spare the instance the user had open before the launch, which   *)
(* only a request by the application's name can end, unless the listing    *)
(* before the launch failed.                                               *)
ComboOnly ==
    [][/\ trigger' => held'
       /\ Terminate \/ KillClient => (Early \in alive \ alive' => "before" \in blind)]_vars

(* An emulator of this launch that still runs when the save is read for    *)
(* the upload is one whose hook broke after it had started, or flatpak ps  *)
(* failed at the last look, or no hook was there and flatpak run had left  *)
(* it behind; there is no other way.  And at the end what a completed sync *)
(* changed in the state is on file, for a launch that failed too.          *)
UploadAfterExit ==
    /\ main.pc = "postsync" =>
         \A w \in main.spawned : serves[w] \in alive =>
            \/ w \in main.broken
            \/ "end" \in blind
            \/ Way # "hook" /\ "left" \in blind
    /\ main.pc = "done" /\ ~main.failed => ~main.dirty

(* The combination ends the process that was started, obedient or not,     *)
(* unless macOS ran the game in the instance the user had open, which is   *)
(* among those to spare, or the listing before the last signal failed.     *)
ComboEnds ==
    trigger /\ watcher = "watch" /\ serves[main.way] \notin pids
      ~> main.way \notin client \/ main.pc = "done" \/ "kill" \in blind
=============================================================================
