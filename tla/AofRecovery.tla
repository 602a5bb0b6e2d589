------------------------------ MODULE AofRecovery ------------------------------
(***************************************************************************)
(* What a restart brings back: the dispatcher and its append-only file     *)
(* (AofLog, aofWriters), the snapshots of PersistenceManager, and the      *)
(* bootstrap that restores the one and replays the other.                  *)
(*                                                                         *)
(* Three keys stand for what verbs do to a store.  The string, whose value *)
(* is the number of the command that set it, is replaced and has a TTL; so *)
(* it is with SETNX, MSET, HSET, SADD and ZADD.  The list grows and        *)
(* shrinks by what it holds, as with LPUSH, INCR, APPEND, HINCRBY and      *)
(* ZINCRBY, and with RPOP, LREM, HDEL, SREM and ZREM.  The priority queue  *)
(* is in no snapshot.  Stores are lengths: which entry a pop takes is for  *)
(* PriorityQueue.                                                          *)
(*                                                                         *)
(* A transaction is a sequence of commands, run without a pause: only a    *)
(* crash comes between its steps.  The routes that serve one operation     *)
(* each, POST /set and the rest, call the stores themselves, and the log   *)
(* never hears of it; nor does it hear of keys that expire or are evicted. *)
(* Replay is taken to stay below the cap on memory.                        *)
(***************************************************************************)
EXTENDS Integers, Sequences, FiniteSets

CONSTANTS
    Requests,       \* transactions: sequences of verbs
    Routes,         \* the verbs used by routes of their own
    Policies,       \* the values of ERIX_AOF_FSYNC in use
    MaxCommands,    \* bound
    MaxRestarts,    \* bound
    MaxSaves,       \* bound: snapshots captured
    MaxFaults       \* bound: writes to the file cut short or refused, failing syncs, evictions

\* LPOP stands for every command that takes one element off, LTRIM leaves one.
MutatingVerbs == {"SET", "SETEX", "EXPIRE", "PERSIST", "DEL", "FLUSHDB",
                  "RPUSH", "LPOP", "LTRIM", "ENQUEUE", "DEQUEUE", "QCLEAR"}

ASSUME AofAssumption ==
    /\ Requests \subseteq Seq(MutatingVerbs \cup {"GET"})
    /\ Routes \subseteq MutatingVerbs
    /\ Policies \subseteq {"always", "everysec", "no"}
    /\ {MaxCommands, MaxRestarts, MaxSaves, MaxFaults} \subseteq Nat

VARIABLES
    mem,        \* the stores: text (0: no key), timed (it has a TTL), list and queue
    phase,      \* of the process: "up", "rewriting", "down"
    todo,       \* the commands left of the request being served
    unlogged,   \* the entry of a command that has run, before append()
    saves,      \* snapshots captured and not yet committed
    file,       \* the lines of the log; "junk" does not parse
    cut,        \* the last line has no newline
    synced,     \* the lines that survive the machine
    snapshot,   \* the latest committed, in Postgres
    policy,
    count,      \* of commands, restarts, saves and faults
    origin,     \* history: the stores the file applies to
    possible,   \* history: the stores a crash now may leave: after the
                \* requests answered and any of the commands since
    slips       \* history: why entries are missing from the file

process == <<mem, phase, todo, unlogged, saves>>
disk == <<file, cut, synced>>
history == <<origin, possible, slips>>
vars == <<process, disk, snapshot, policy, count, history>>

Empty == [text |-> 0, timed |-> FALSE, list |-> 0, queue |-> 0]

Init ==
    /\ mem = Empty /\ phase = "up" /\ todo = <<>> /\ unlogged = <<>> /\ saves = {}
    /\ file = <<>> /\ cut = FALSE /\ synced = 0
    /\ snapshot = [at |-> 0, data |-> Empty]
    /\ policy \in Policies
    /\ count = [commands |-> 0, restarts |-> 0, saves |-> 0, faults |-> 0]
    /\ origin = Empty /\ possible = {Empty} /\ slips = {}

Idle == phase = "up" /\ todo = <<>> /\ unlogged = <<>>

-----------------------------------------------------------------------------
(* Commands and the log.                                                   *)

TextAfter(m, e) ==
    CASE e.verb \in {"SET", "SETEX"} -> e.value
      [] e.verb \in {"DEL", "FLUSHDB"} -> 0
      [] OTHER -> m.text

TimedAfter(m, e) ==
    CASE e.verb = "SETEX" -> TRUE
      [] e.verb = "EXPIRE" -> m.text # 0
      [] e.verb \in {"SET", "PERSIST", "DEL", "FLUSHDB"} -> FALSE
      [] OTHER -> m.timed

ListAfter(n, e) ==
    CASE e.verb = "RPUSH" -> n + e.value
      [] e.verb = "LPOP" /\ n > 0 -> n - 1
      [] e.verb = "LTRIM" /\ n > 1 -> 1
      [] e.verb = "FLUSHDB" -> 0
      [] OTHER -> n

QueueAfter(n, e) ==
    CASE e.verb = "ENQUEUE" -> n + e.value
      [] e.verb = "DEQUEUE" /\ n > 0 -> n - 1
      [] e.verb = "QCLEAR" -> 0
      [] OTHER -> n

Applied(m, e) == [text |-> TextAfter(m, e), timed |-> TimedAfter(m, e),
                  list |-> ListAfter(m.list, e), queue |-> QueueAfter(m.queue, e)]

\* replay(): line by line; one that does not parse is skipped.
Replayed(m, lines) ==
    LET after[n \in 0..Len(lines)] ==
          IF n = 0 THEN m ELSE Applied(after[n - 1], lines[n])
    IN  after[Len(lines)]

LogLine(verb, n) == [verb |-> verb, value |-> CASE verb \in {"SET", "SETEX"} -> n
                                               [] verb = "RPUSH" -> 2
                                               [] OTHER -> 1]
Junk == [verb |-> "junk", value |-> 0]

\* A transaction arrives at /tx/exec; client.cmd() sends one of one command.
Receive(request) ==
    /\ Idle
    /\ count.commands + Len(request) <= MaxCommands
    /\ todo' = request
    /\ UNCHANGED <<mem, phase, unlogged, saves, disk, snapshot, policy, count, history>>

\* What a crash may leave, given the stores, and whether the request is answered.
Remember(m, answered) == possible' = IF answered THEN {m} ELSE possible \cup {m}

\* dispatchCommand() runs the handler; append() follows for a verb that mutates.
Execute ==
    /\ phase = "up" /\ todo # <<>> /\ unlogged = <<>>
    /\ count' = [count EXCEPT !.commands = @ + 1]
    /\ todo' = Tail(todo)
    /\ LET entry == LogLine(Head(todo), count'.commands) IN
         /\ mem' = Applied(mem, entry)
         /\ unlogged' = IF entry.verb \in MutatingVerbs THEN <<entry>> ELSE <<>>
    /\ Remember(mem', todo' = <<>> /\ unlogged' = <<>>)
    /\ UNCHANGED <<phase, saves, disk, snapshot, policy, origin, slips>>

\* A handler that throws is not logged; RPUSH of two elements may have pushed one.
ExecuteFails ==
    /\ phase = "up" /\ todo # <<>> /\ unlogged = <<>>
    /\ count' = [count EXCEPT !.commands = @ + 1]
    /\ todo' = Tail(todo)
    /\ \/ UNCHANGED <<mem, slips>>
       \/ /\ Head(todo) = "RPUSH"
          /\ mem' = [mem EXCEPT !.list = @ + 1]
          /\ slips' = slips \cup {"partial"}
    /\ Remember(mem', todo' = <<>>)
    /\ UNCHANGED <<phase, unlogged, saves, disk, snapshot, policy, origin>>

\* POST /set, /list/rpush, /q/enqueue, DELETE: the store is changed, nothing logged.
RouteWrites(verb) ==
    /\ Idle
    /\ count.commands < MaxCommands
    /\ count' = [count EXCEPT !.commands = @ + 1]
    /\ mem' = Applied(mem, [LogLine(verb, count'.commands) EXCEPT !.value = IF verb = "RPUSH" THEN 1 ELSE @])
    /\ Remember(mem', TRUE)
    /\ slips' = slips \cup {"route"}
    /\ UNCHANGED <<phase, todo, unlogged, saves, disk, snapshot, policy, origin>>

\* The sweep, or a command that finds the TTL over: handleExpiry(), not a command.
Expires ==
    /\ phase = "up" /\ unlogged = <<>>
    /\ mem.timed
    /\ mem' = [mem EXCEPT !.text = 0, !.timed = FALSE]
    /\ Remember(mem', todo = <<>>)
    /\ slips' = slips \cup {"expired"}
    /\ UNCHANGED <<phase, todo, unlogged, saves, disk, snapshot, policy, count, origin>>

\* Some write needs the room: deleteKey(), not a command either.
Evicts ==
    /\ phase = "up" /\ unlogged = <<>>
    /\ count.faults < MaxFaults
    /\ count' = [count EXCEPT !.faults = @ + 1]
    /\ \/ /\ mem.text # 0
          /\ mem' = [mem EXCEPT !.text = 0, !.timed = FALSE]
          /\ slips' = slips \cup {"text evicted"}
       \/ /\ mem.list # 0
          /\ mem' = [mem EXCEPT !.list = 0]
          /\ slips' = slips \cup {"list evicted"}
    /\ Remember(mem', todo = <<>>)
    /\ UNCHANGED <<phase, todo, unlogged, saves, disk, snapshot, policy, origin>>

\* A line appended to one without a newline becomes part of it.
FileWith(line) == IF cut THEN [file EXCEPT ![Len(file)] = Junk] ELSE Append(file, line)

AppendReturns ==
    /\ phase = "up" /\ unlogged # <<>>
    /\ unlogged' = <<>>
    /\ Remember(mem, todo = <<>>)
    /\ UNCHANGED <<mem, phase, todo, saves, snapshot, policy, origin>>

\* fsyncSync() in append(), under "always" only; the mutant has none.
NeverSynced == synced
SyncedAfterAppend == IF policy = "always" THEN Len(file') ELSE synced

\* append()
Appended ==
    /\ AppendReturns
    /\ file' = FileWith(unlogged[1])
    /\ cut' = FALSE

Swallowing == IF cut THEN slips \cup {"swallowed"} ELSE slips

AppendLine ==
    /\ Appended
    /\ synced' = SyncedAfterAppend
    /\ slips' = Swallowing
    /\ UNCHANGED count

\* fsyncSync() throws, which is caught and printed: the command is answered.
AppendUnsynced ==
    /\ Appended
    /\ policy = "always"
    /\ count.faults < MaxFaults
    /\ count' = [count EXCEPT !.faults = @ + 1]
    /\ slips' = Swallowing \cup {"unsynced"}
    /\ UNCHANGED synced

\* writeSync() throws, or writes a part and says so to no one; the mutation
\* stays and the request is answered.
AppendFails ==
    /\ AppendReturns
    /\ count.faults < MaxFaults
    /\ count' = [count EXCEPT !.faults = @ + 1]
    /\ slips' = slips \cup {"refused"}
    /\ UNCHANGED synced
    /\ \/ UNCHANGED <<file, cut>>
       \/ file' = FileWith(Junk) /\ cut' = TRUE

\* The timer of "everysec", and the system's own write-back.
Fsync ==
    /\ Idle
    /\ synced' = Len(file)
    /\ UNCHANGED <<process, file, cut, snapshot, policy, count, history>>

-----------------------------------------------------------------------------
(* BGREWRITEAOF: the live state goes to a second file, which is synced and *)
(* renamed over the log.                                                   *)

\* One line for a store that holds something.
Line(verb, n) == IF n > 0 THEN <<[verb |-> verb, value |-> n]>> ELSE <<>>

\* aofRewriteEntries(); its mutant leaves out the priority queues.
TextLine(m) == Line(IF m.timed THEN "SETEX" ELSE "SET", m.text)
RewrittenStores(m) == TextLine(m) \o Line("RPUSH", m.list)
Rewritten(m) == TextLine(m) \o Line("RPUSH", m.list) \o Line("ENQUEUE", m.queue)

RewriteStarts ==
    /\ Idle
    /\ phase' = "rewriting"
    /\ UNCHANGED <<mem, todo, unlogged, saves, disk, snapshot, policy, count, history>>

\* The rename is for good, though the directory is not synced.  A key whose TTL is
\* over and which the sweep has not found yet is written without one.
RewriteRenames(undated) ==
    /\ phase = "rewriting"
    /\ undated => mem.timed
    /\ phase' = "up"
    /\ file' = Rewritten(IF undated THEN [mem EXCEPT !.timed = FALSE] ELSE mem)
    /\ cut' = FALSE
    /\ synced' = Len(file')
    /\ origin' = Empty
    /\ slips' = IF undated THEN {"undated"} ELSE {}
    /\ UNCHANGED <<mem, todo, unlogged, saves, snapshot, policy, count, possible>>

\* The second file cannot be written or renamed: the old one is opened again.
RewriteFails ==
    /\ phase = "rewriting"
    /\ phase' = "up"
    /\ UNCHANGED <<mem, todo, unlogged, saves, disk, snapshot, policy, count, history>>

-----------------------------------------------------------------------------
(* Snapshots, by the timer, BGSAVE and shutdown: save() has a connection,  *)
(* exports the stores but not the queue, and commits or rolls back later.  *)

Captured == [at |-> count.saves + 1, data |-> [mem EXCEPT !.queue = 0]]

\* The table keeps the latest by the time of BEGIN.
Latest(save) == IF save.at > snapshot.at THEN save ELSE snapshot

SaveCaptures ==
    /\ Idle
    /\ count.saves < MaxSaves
    /\ saves' = saves \cup {Captured}
    /\ count' = [count EXCEPT !.saves = @ + 1]
    /\ UNCHANGED <<mem, phase, todo, unlogged, disk, snapshot, policy, history>>

SaveEnds(save) ==
    /\ phase = "up"
    /\ saves' = saves \ {save}
    /\ snapshot' \in {snapshot, Latest(save)}
    /\ UNCHANGED <<mem, phase, todo, unlogged, disk, policy, count, history>>

-----------------------------------------------------------------------------
(* The end of the process and its start.                                   *)

Ends ==
    /\ count.restarts < MaxRestarts
    /\ count' = [count EXCEPT !.restarts = @ + 1]
    /\ phase' = "down" /\ mem' = Empty /\ todo' = <<>> /\ unlogged' = <<>> /\ saves' = {}
    /\ UNCHANGED <<policy, origin, possible>>

\* shutdown(): a last save, which may fail, and AofLog.close(), whose sync may too.
Shutdown ==
    /\ Idle
    /\ Ends
    /\ snapshot' \in {snapshot, Latest(Captured)}
    /\ synced' \in {synced, Len(file)}
    /\ UNCHANGED <<file, cut, slips>>

\* Killed: what was written stays written.
ProcessDies ==
    /\ phase # "down"
    /\ Ends
    /\ UNCHANGED <<disk, snapshot, slips>>

\* The machine stops: the file keeps what was synced and some lines more, and
\* part of the next or of the one being written.
MachineDies ==
    /\ phase # "down"
    /\ Ends
    /\ LET coming == file \o unlogged IN
       \E n \in synced..Len(file), torn \in BOOLEAN :
         /\ torn => n < Len(coming)
         /\ file' = SubSeq(file, 1, n) \o (IF torn THEN <<Junk>> ELSE <<>>)
         /\ cut' = (torn \/ (cut /\ n = Len(file)))
         /\ synced' = Len(file')
         /\ slips' = IF \E i \in n+1..Len(file) : file[i] # Junk
                      THEN slips \cup {"lost"}
                      ELSE slips
    /\ UNCHANGED snapshot

\* restore(): the snapshot, in which the TTL may be over, or nothing if that fails.
Restored ==
    {snapshot.data, Empty}
        \cup {[snapshot.data EXCEPT !.text = 0, !.timed = FALSE] : t \in {TRUE} \cap {snapshot.data.timed}}

\* bootstrap(): replay the whole file over that; append() does nothing meanwhile.
\* Its mutant logs what it replays.
BootstrapLogging(base) ==
    /\ phase = "down"
    /\ phase' = "up"
    /\ mem' = Replayed(base, file)
    /\ file' = file \o file
    /\ origin' = base /\ possible' = {mem'} /\ slips' = slips \cap {"unsynced"}
    /\ UNCHANGED <<todo, unlogged, saves, cut, synced, snapshot, policy, count>>
Bootstrap(base) ==
    /\ phase = "down"
    /\ phase' = "up"
    /\ mem' = Replayed(base, file)
    /\ origin' = base /\ possible' = {mem'} /\ slips' = slips \cap {"unsynced"}
    /\ UNCHANGED <<todo, unlogged, saves, disk, snapshot, policy, count>>

Next ==
    \/ \E request \in Requests : Receive(request)
    \/ \E verb \in Routes : RouteWrites(verb)
    \/ Execute \/ ExecuteFails \/ Expires \/ Evicts
    \/ AppendLine \/ AppendUnsynced \/ AppendFails \/ Fsync
    \/ RewriteStarts \/ RewriteFails
    \/ \E undated \in BOOLEAN : RewriteRenames(undated)
    \/ SaveCaptures
    \/ \E save \in saves : SaveEnds(save)
    \/ Shutdown \/ ProcessDies \/ MachineDies
    \/ \E base \in Restored : Bootstrap(base)

Spec == Init /\ [][Next]_vars

-----------------------------------------------------------------------------
\* Why a log, complete as to the commands, may have another string or list than
\* the stores; and a sync that failed, which is another matter.
TextSlips == {"expired", "text evicted", "undated"}
ListSlips == {"list evicted"}

Complete == slips \subseteq TextSlips \cup ListSlips \cup {"unsynced"}

(* A log that has every command, applied to what the process started from, *)
(* or to nothing after a rewrite, gives the queue as it is; so it does the *)
(* string, unless that has expired or was evicted, and the list, unless it *)
(* was evicted: no command says so.                                        *)
FileMatchesMemory ==
    phase = "up" /\ unlogged = <<>> /\ Complete =>
        LET m == Replayed(origin, file) IN
        /\ m.queue = mem.queue
        /\ slips \cap TextSlips = {} => m.text = mem.text /\ m.timed = mem.timed
        /\ slips \cap ListSlips = {} => m.list = mem.list

(* Under "always" no line that was written is lost with the machine,       *)
(* unless a sync has failed since the last rewrite: a command is answered  *)
(* all the same.                                                           *)
AlwaysDurable ==
    policy = "always" /\ "unsynced" \notin slips => "lost" \notin slips

Mentions(verbs) == \E i \in DOMAIN file : file[i].verb \in verbs

(* After a restart with a log that has every command, the queue is exactly *)
(* as long as the answered requests, and perhaps some commands of the one  *)
(* under way, left it; so is the string as they left it, if the log sets   *)
(* it; and the list is off by no more than what the snapshot holds more,   *)
(* or less, than the stores this log began over.  String and list may be   *)
(* back when they had expired or were evicted.                             *)
RecoveryExact ==
    [][(phase = "down" /\ phase' = "up" /\ Complete) =>
         \E p \in possible :
           /\ mem'.queue = p.queue
           /\ Mentions({"SET", "SETEX", "DEL", "FLUSHDB"}) /\ slips \cap TextSlips = {} =>
                mem'.text = p.text /\ mem'.timed = p.timed
           /\ slips \cap ListSlips = {} =>
                LET more == origin'.list - origin.list
                IN  mem'.list - p.list \in (0..more) \cup (more..0)]_vars

(* "The AOF carries every mutation from the moment of the last snapshot    *)
(* forward": false in the code, whose routes do not go through the         *)
(* dispatcher.                                                             *)
EveryMutationLogged ==
    phase = "up" /\ unlogged = <<>> /\ slips \subseteq {"route"} => Replayed(origin, file) = mem

(* A restart from its snapshot gives back the list as it was, as           *)
(* "replaying the AOF reconstructs the in-memory state exactly" has it:    *)
(* false in the code, which replays the whole log on top of the snapshot,  *)
(* also what the snapshot holds.                                           *)
RestartExact ==
    [][(phase = "down" /\ phase' = "up" /\ slips = {} /\ origin' = snapshot.data) =>
         \E p \in possible : mem'.list = p.list]_vars

(* A string whose TTL was over stays gone, as the same words have it:      *)
(* false in the code, which logs no expiry and replays a SET .. EX with    *)
(* its TTL in full.                                                        *)
ExpiredStaysGone ==
    [][(phase = "down" /\ phase' = "up" /\ slips = {"expired"} /\ origin' = snapshot.data) =>
         \E p \in possible : mem'.text = p.text]_vars

(* Under "always", "fsync after every appended command", a command that    *)
(* was answered and logged survives the machine: false in the code, where  *)
(* append() catches what fsyncSync() throws.                               *)
SafeForHardKills == policy = "always" => "lost" \notin slips
=============================================================================
