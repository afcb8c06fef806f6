---------------------------- MODULE GameStopper ----------------------------
(* Stopping games: the panel of Game Mode that lists what runs and, when    *)
(* that is confirmed, has it stopped and leaves; GameStopService, which     *)
(* scans for games and stops them on workers of its own; the Stopper, which *)
(* asks the processes of a plan to close and later forces them.  Processes  *)
(* come and go meanwhile, and a pid may be another process's by then: it is *)
(* the pid and the start time that name one.                                *)
EXTENDS Naturals, Sequences, FiniteSets, SequencesExt

CONSTANTS
  Pids,
  Rows,                 \* the games of the library, in its order
  WinePrefixes, Sandboxes,  \* Wine prefixes, and Flatpak applications
  NoGame, NoScope,
  ScopeOf,              \* the prefix or the sandbox of a game, or NoScope
  ProcessKinds,         \* what a process may be: whose folder or content it
                        \* runs, the scope it is in, whether the guards name it
  Bounds                \* how many processes, of which kinds, and stops start

Library == Range(Rows)
Scopes == WinePrefixes \cup Sandboxes
Processes == [pid : Pids, start : Nat, game : Library \cup {NoGame}, scope : Scopes \cup {NoScope},
              guarded : BOOLEAN]

ASSUME StopperAssumption ==
  /\ Rows \in Seq(Library)
  /\ WinePrefixes \cap Sandboxes = {} /\ NoGame \notin Library /\ NoScope \notin Scopes
  /\ \A s \in Scopes : s \notin Processes
  /\ ScopeOf \in [Library -> Scopes \cup {NoScope}]
  /\ ProcessKinds \subseteq [game : Library \cup {NoGame}, scope : Scopes \cup {NoScope},
                             guarded : BOOLEAN]
  /\ Bounds \subseteq [starts : Nat, stops : Nat, kinds : SUBSET ProcessKinds]

VARIABLES
  table,    \* the processes that run
  may,      \* bound: what may still start
  service,  \* m_busy, m_scanning, m_refreshAgain
  scanner,  \* the scan under way: whether it has read /proc, and what it found
  worker,   \* the stop under way
  panel,    \* the panel in Game Mode, and whether that was left through it
  ledger    \* history of the stop: what was planned, of which targets a close
            \* was asked, which processes got a signal, and which were forced;
            \* for each run of a tool, what it may have closed

stopperVars == <<table, may, service, scanner, worker, panel, ledger>>

-----------------------------------------------------------------------------
(* What stopping a game would signal (GameStop::plan): its processes, but   *)
(* a whole prefix or sandbox in place of those that are in it, unless a     *)
(* process there is never to be signalled.                                  *)
Plan(g, procs) ==
  LET mine == {q \in procs : q.game = g /\ ~q.guarded}
      inside == {q \in procs : q.scope = ScopeOf[g]}
      whole == ScopeOf[g] \in Scopes /\ mine \cap inside # {} /\ \A q \in inside : ~q.guarded
  IN IF whole THEN [targets |-> (mine \ inside) \cup {ScopeOf[g]}, witnesses |-> inside]
              ELSE [targets |-> mine, witnesses |-> {}]

Members(plan, t) == IF t \in Scopes THEN plan.witnesses ELSE {t}
Covered(plan) == UNION {Members(plan, t) : t \in plan.targets}

(* The games something would be signalled for; of games that share all of   *)
(* it only the first.                                                       *)
LiveGames(procs) ==
  FoldLeft(LAMBDA found, g :
             LET targets == Plan(g, procs).targets
             IN IF targets \subseteq found.shown THEN found
                ELSE [games |-> Append(found.games, g), shown |-> found.shown \cup targets],
           [games |-> <<>>, shown |-> {}], Rows).games

NoPlan == [targets |-> {}, witnesses |-> {}]
Unscanned == [at |-> "none", games |-> <<>>]
Idle == [at |-> "none", queue |-> <<>>, handled |-> {}, plan |-> NoPlan, todo |-> {},
         pending |-> {}, signalled |-> FALSE, failed |-> FALSE, cancel |-> FALSE, okay |-> FALSE]
NewPanel == [games |-> <<>>, pending |-> FALSE, waiting |-> FALSE, mode |-> "session", ran |-> {}]
NoLedger == [planned |-> {}, asked |-> {}, forced |-> {}, hit |-> {}, closed |-> {}]

StopperInit ==
  /\ table = {}
  /\ may \in Bounds
  /\ service = [busy |-> FALSE, scanning |-> FALSE, again |-> FALSE]
  /\ scanner = Unscanned
  /\ worker = Idle
  /\ panel = NewPanel
  /\ ledger = NoLedger

-----------------------------------------------------------------------------
(* Processes, of games and of others, start, perhaps with a pid that was    *)
(* another's, and end: by themselves, or when they are told to.             *)
ProcessStarts(pid) ==
  /\ may.starts > 0 /\ \A q \in table : q.pid # pid
  /\ may' = [may EXCEPT !.starts = @ - 1]
  /\ \E k \in may.kinds :
       table' = table \cup {[pid |-> pid, start |-> may.starts, game |-> k.game,
                             scope |-> k.scope, guarded |-> k.guarded]}
  /\ UNCHANGED <<service, scanner, worker, panel, ledger>>

ProcessEnds(q) ==
  /\ table' = table \ {q}
  /\ UNCHANGED <<may, service, scanner, worker, panel, ledger>>

-----------------------------------------------------------------------------
(* GameStopService: scans.  A request that must not be answered by the scan *)
(* under way has another one made.                                          *)
RefreshedDropping(s, afterCurrent) == [s EXCEPT !.scanning = TRUE]  \* mutant
Refreshed(s, afterCurrent) ==
  IF s.scanning THEN [s EXCEPT !.again = @ \/ afterCurrent] ELSE [s EXCEPT !.scanning = TRUE]
Scanned(was) == IF was.scanning THEN scanner ELSE [Unscanned EXCEPT !.at = "begun"]

ScanReads ==
  /\ scanner.at = "begun"
  /\ scanner' = [at |-> "read", games |-> LiveGames(table)]
  /\ UNCHANGED <<table, may, service, worker, panel, ledger>>

(* onLiveGamesChanged() of the panel: it shows the list, or, when the stop  *)
(* is over and this is the scan it waited for, leaves Game Mode if nothing  *)
(* is on it.                                                                *)
Heard(p, found) ==
  IF p.waiting THEN [NewPanel EXCEPT !.mode = IF found.games = <<>> THEN "left" ELSE @]
  ELSE IF p.pending THEN p
  ELSE [p EXCEPT !.games = found.games]

ScanEnds ==
  /\ scanner.at = "read"
  /\ IF service.again
     THEN /\ service' = [service EXCEPT !.again = FALSE]
          /\ scanner' = [Unscanned EXCEPT !.at = "begun"]
          /\ UNCHANGED panel
     ELSE /\ service' = [service EXCEPT !.scanning = FALSE]
          /\ scanner' = Unscanned
          /\ panel' = Heard(panel, scanner)
  /\ UNCHANGED <<table, may, worker, ledger>>

(* A panel is opened, this one or another: each asks for a scan.            *)
Open ==
  /\ service' = Refreshed(service, FALSE) /\ scanner' = Scanned(service)
  /\ UNCHANGED <<table, may, worker, panel, ledger>>

-----------------------------------------------------------------------------
(* The panel.  Only the list of a scan that is over can be confirmed; the   *)
(* stop it begins makes plans of its own.                                   *)
BeginStop(games) ==
  /\ may.stops > 0 /\ may' = [may EXCEPT !.stops = @ - 1]
  /\ worker' = [Idle EXCEPT !.at = "next", !.queue = games]
  /\ ledger' = NoLedger

Confirm ==
  /\ ~panel.pending /\ ~service.scanning /\ panel.games # <<>>
  /\ IF service.busy
     THEN /\ service' = Refreshed(service, FALSE) /\ scanner' = Scanned(service)
          /\ panel' = NewPanel
          /\ UNCHANGED <<may, worker, ledger>>
     ELSE /\ BeginStop(panel.games)
          /\ service' = [service EXCEPT !.busy = TRUE]
          /\ panel' = [NewPanel EXCEPT !.pending = TRUE]
          /\ UNCHANGED scanner
  /\ UNCHANGED table

(* stop(): from the page of a game.                                         *)
StopOne(g) ==
  /\ ~service.busy /\ Plan(g, table).targets # {}
  /\ BeginStop(<<g>>)
  /\ service' = [service EXCEPT !.busy = TRUE]
  /\ UNCHANGED <<table, scanner, panel>>

CancelStop ==
  /\ service.busy /\ worker' = [worker EXCEPT !.cancel = TRUE]
  /\ UNCHANGED <<table, may, service, scanner, panel, ledger>>

(* The session ends otherwise, and what the panel waited for is forgotten;  *)
(* the next one begins with nothing pending.                                *)
SessionEnds ==
  /\ panel' = NewPanel
  /\ UNCHANGED <<table, may, service, scanner, worker, ledger>>

(* publish(), and the panel's onFinished(): a stop that went well is        *)
(* followed by a scan.                                                      *)
Publish ==
  /\ worker.at = "done"
  /\ worker' = Idle
  /\ LET idle == [service EXCEPT !.busy = FALSE]
     IN IF panel.pending /\ worker.okay
        THEN /\ panel' = [panel EXCEPT !.waiting = TRUE,
                                       !.ran = {q \in table : q.game # NoGame /\ ~q.guarded}]
             /\ service' = Refreshed(idle, TRUE) /\ scanner' = Scanned(service)
        ELSE /\ panel' = [panel EXCEPT !.pending = FALSE]
             /\ service' = idle /\ UNCHANGED scanner
  /\ ledger' = NoLedger
  /\ UNCHANGED <<table, may>>

-----------------------------------------------------------------------------
(* The worker of a stop, game by game.                                      *)
NextGame ==
  /\ worker.at = "next" /\ worker.queue # <<>> /\ ~worker.cancel
  /\ LET full == Plan(Head(worker.queue), table)
         plan == [full EXCEPT !.targets = @ \ worker.handled]
     IN IF plan.targets = {} THEN worker' = [worker EXCEPT !.queue = Tail(@)] /\ UNCHANGED ledger
        ELSE /\ worker' = [worker EXCEPT !.at = "ask", !.plan = plan, !.todo = plan.targets,
                                         !.handled = @ \cup plan.targets]
             /\ ledger' = [ledger EXCEPT !.planned = @ \cup Covered(plan)]
  /\ UNCHANGED <<table, may, service, scanner, panel>>

PidRuns(q) == \E r \in table : r.pid = q.pid  \* mutant
StillRuns(q) == q \in table

(* kill(): whatever process has the pid.                                    *)
Hit(procs) == {q \in table : \E r \in procs : q.pid = r.pid}

(* What is left of a target that is due; a scope comes after the processes. *)
Due(at, t) == worker.at = at /\ t \in worker.todo /\ (t \in Scopes => worker.todo = {t})
Left(t) == {q \in Members(worker.plan, t) : StillRuns(q)}
Done(t, signalled, failed) ==
  [worker EXCEPT !.todo = @ \ {t}, !.signalled = @ \/ signalled, !.failed = @ \/ failed]

AlreadyGone(t) ==
  /\ Due("ask", t) \/ Due("force", t)
  /\ Left(t) = {} /\ worker' = Done(t, FALSE, FALSE)
  /\ UNCHANGED <<table, may, service, scanner, panel, ledger>>

(* begin(): SIGTERM for a process, and for those of a prefix when there is  *)
(* no wineserver.  Some may be refused; it is a failure, and what was asked *)
(* is still forced later.                                                   *)
AskProcesses(t) ==
  /\ Due("ask", t) /\ t \notin Sandboxes /\ Left(t) # {}
  /\ \E refused \in SUBSET Left(t) :
       LET asked == Left(t) \ refused
           any == asked # {}
       IN /\ worker' = [Done(t, refused = {}, refused # {}) EXCEPT
                          !.pending = @ \cup {u \in {t} : any}]
          /\ ledger' = [ledger EXCEPT !.hit = @ \cup Hit(asked),
                                      !.asked = @ \cup {q \in Members(worker.plan, t) : any}]
  /\ UNCHANGED <<table, may, service, scanner, panel>>

(* wineserver -k, and flatpak kill, which is not followed by force: done,   *)
(* nothing there, or failed, perhaps after it closed something.  They close *)
(* what is in the scope by then, whoever planned for it.                    *)
Inside(s) == {q \in table : q.scope = s}

AskTool(s) ==
  /\ Due("ask", s) /\ s \in Scopes /\ Left(s) # {}
  /\ \/ /\ worker' = [Done(s, TRUE, FALSE) EXCEPT !.pending = @ \cup ({s} \cap WinePrefixes)]
        /\ ledger' = [ledger EXCEPT !.asked = @ \cup worker.plan.witnesses, !.closed = @ \cup {Inside(s)}]
     \/ s \in WinePrefixes /\ worker' = Done(s, FALSE, FALSE) /\ UNCHANGED ledger
     \/ worker' = Done(s, FALSE, TRUE) /\ ledger' = [ledger EXCEPT !.closed = @ \cup {Inside(s)}]
  /\ UNCHANGED <<table, may, service, scanner, panel>>

(* escalate(), once the grace period is over, unless that was cancelled.    *)
Escalate ==
  /\ worker.at = "ask" /\ worker.todo = {} /\ worker.pending # {} /\ ~worker.cancel
  /\ worker' = [worker EXCEPT !.at = "force", !.todo = worker.pending, !.pending = {}]
  /\ UNCHANGED <<table, may, service, scanner, panel, ledger>>

ForceProcesses(t) ==
  /\ Due("force", t) /\ Left(t) # {}
  /\ \E refused \in SUBSET Left(t) :
       LET forced == Hit(Left(t) \ refused)
       IN /\ worker' = Done(t, Left(t) # refused, refused # {})
          /\ ledger' = [ledger EXCEPT !.hit = @ \cup forced, !.forced = @ \cup forced]
  /\ UNCHANGED <<table, may, service, scanner, panel>>

(* What the tools say is not what has ended: a target of which anything     *)
(* still runs is a failure.  It is given two seconds after it was forced.   *)
StaysAsked(t) == Left(t) # {} /\ t \in worker.pending  \* mutant
Stays(t) == Left(t) # {}
Checked ==
  /\ worker.todo = {}
  /\ worker.at = "force" \/ (worker.at = "ask" /\ (worker.pending = {} \/ worker.cancel))
  /\ worker' = [worker EXCEPT !.at = "next", !.queue = Tail(@), !.pending = {}, !.plan = NoPlan,
                              !.failed = @ \/ \E t \in worker.plan.targets : Stays(t)]
  /\ UNCHANGED <<table, may, service, scanner, panel, ledger>>

Report ==
  /\ worker.at = "next" /\ (worker.queue = <<>> \/ worker.cancel)
  /\ worker' = [worker EXCEPT !.at = "done",
                              !.okay = ~worker.cancel /\ worker.signalled /\ ~worker.failed]
  /\ UNCHANGED <<table, may, service, scanner, panel, ledger>>

(* Bound: nothing is followed after Game Mode was left through the panel.   *)
StopperNext ==
  /\ panel.mode = "session"
  /\ \/ \E pid \in Pids : ProcessStarts(pid)
     \/ \E q \in table : ProcessEnds(q)
     \/ ScanReads \/ ScanEnds
     \/ Open \/ Confirm \/ CancelStop \/ SessionEnds \/ Publish
     \/ \E g \in Library : StopOne(g)
     \/ NextGame \/ Escalate \/ Checked \/ Report
     \/ \E t \in worker.todo : AlreadyGone(t) \/ AskProcesses(t) \/ AskTool(t) \/ ForceProcesses(t)

StopperSpec == StopperInit /\ [][StopperNext]_stopperVars

-----------------------------------------------------------------------------
(* A signal goes only to a process the worker had planned for (anew, once   *)
(* the stop was confirmed: GameStopService.cpp:315), never to one the       *)
(* guards named then, or to another that has its pid or came in its place;  *)
(* a forced close only to one of a target that was asked before             *)
(* (GameStopper.h:96-107).  A tool, which closes whatever is in its scope,  *)
(* is run only while a process planned for is still in there.               *)
OnlyThePlanned ==
  /\ ledger.hit \subseteq ledger.planned /\ \A q \in ledger.hit : ~q.guarded
  /\ ledger.forced \subseteq ledger.asked
  /\ \A c \in ledger.closed : c \cap ledger.planned # {}

(* The guards name "processes that must never be signalled" (GameStop.h:72),*)
(* and none is hidden inside a broad scope (GameStop.cpp:412).              *)
GuardedAreSpared == \A q \in ledger.hit \cup UNION ledger.closed : ~q.guarded

(* A stop that is reported as done has ended every process it was for,      *)
(* whatever the tools and the kernel said of it (GameStopService.cpp:375).  *)
DoneIsGone ==
  worker.at = "done" /\ worker.okay => ledger.planned \cap table = {}

(* Stop Games and Leave leaves only when every process of a game that was   *)
(* running when the stop was over has ended too, whatever was scanned       *)
(* meanwhile and for whom (GameStopService.cpp:230, GAME-MODE.md:249).      *)
LeavesNoneBehind ==
  [][panel'.mode = "left" => panel.ran \cap table = {}]_stopperVars
=============================================================================
