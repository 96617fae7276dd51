------------------------------- MODULE Sessions -------------------------------
(***************************************************************************)
(* Conversation sessions of the agent: the cache and the files of          *)
(* SessionManager (session/manager.py), the turns of AgentLoop             *)
(* (agent/loop.py), the "/new" command, and the consolidation of old turns *)
(* into HISTORY.md by MemoryConsolidator (agent/memory.py).                *)
(*                                                                         *)
(* Everything runs on one asyncio loop, so code between two awaits is one  *)
(* action.  The awaits that matter are the LLM calls: of the turn itself,  *)
(* of a consolidation, of the archive that "/new" leaves behind.  A        *)
(* command is identified with the messages its turn appends: one element   *)
(* of Cmds stands for a user message, its tool calls and the answer.       *)
(***************************************************************************)
EXTENDS Naturals, Sequences, FiniteSets

CONSTANTS
  ChatKeys,     \* session keys served by AgentLoop._dispatch
  DirectKeys,   \* session keys of process_direct: cron:<id> and heartbeat
  Turns,        \* messages whose first saved entry has the role "user"
  Results,      \* subagent results: their first entry has the role "assistant"
  News,         \* the "/new" commands
  MaxFailures,  \* _MAX_FAILURES_BEFORE_RAW_ARCHIVE
  MaxRounds,    \* _MAX_CONSOLIDATION_ROUNDS
  MaxCrashes,   \* bound: how often the process dies or re-executes itself
  None

Keys == ChatKeys \cup DirectKeys
Cmds == Turns \cup Results \cup News

ASSUME KindsAssumption ==
  /\ ChatKeys \cap DirectKeys = {}
  /\ Turns \cap Results = {} /\ Turns \cap News = {} /\ Results \cap News = {}
  /\ None \notin Cmds /\ None \notin Keys

ASSUME BoundsAssumption ==
  /\ MaxFailures \in Nat \ {0} /\ MaxRounds \in Nat \ {0} /\ MaxCrashes \in Nat

VARIABLES
  sess,       \* heap of Session objects: a sequence of [key, msgs, lc]
  cache,      \* SessionManager._cache: key -> index into sess, 0 when absent
  disk,       \* key -> what the session's file holds (empty when there is none)
  lock,       \* the command that holds AgentLoop._processing_lock
  pc,         \* where each command's coroutine stands
  key,        \* the session key of each command
  at,         \* the Session object each command holds, as an index into sess
  job,        \* chunk being archived, end_idx of it, round or attempt number
  history,    \* HISTORY.md: a sequence of sets of commands
  failures,   \* MemoryStore._consecutive_failures, one counter for all sessions
  crashes,
  overtaken,  \* observer: keys for which /new overtook a running consolidation
  forsaken    \* observer: commands whose archive gave up or died with the process

storage == <<sess, cache, disk>>
log == <<history, failures>>
observers == <<crashes, overtaken, forsaken>>
vars == <<storage, lock, pc, key, at, job, log, observers>>

Session == [key : Keys, msgs : Seq(Cmds), lc : Nat]
Empty(k) == [key |-> k, msgs |-> <<>>, lc |-> 0]
NoJob == [chunk |-> {}, end |-> 0, n |-> 0]

Asking == {"ask", "bgask"}           \* inside the lock, awaiting the LLM
Running == {"wait", "ask", "think"}  \* the turn is not answered yet
Locations == Running \cup {"idle", "bgwait", "bgask", "archive", "stopped", "done"}

\* Mutation of Slice: an off-by-one at the start of the slice.
SliceShort(s, i, j) == {s.msgs[p] : p \in (i + 1)..j}

\* The turns of s with 1-based positions in i..j, as a history entry names them.
Slice(s, i, j) == {s.msgs[p] : p \in i..j}

TypeOK ==
  /\ sess \in Seq(Session)
  /\ cache \in [Keys -> 0..Len(sess)]
  /\ disk \in [Keys -> Session]
  /\ lock \in Cmds \cup {None}
  /\ pc \in [Cmds -> Locations]
  /\ key \in [Cmds -> Keys \cup {None}]
  /\ at \in [Cmds -> 0..Len(sess)]
  /\ job \in [Cmds -> [chunk : SUBSET Cmds, end : Nat, n : Nat]]
  /\ history \in Seq(SUBSET Cmds)
  /\ failures \in 0..(MaxFailures - 1)
  /\ crashes \in 0..MaxCrashes
  /\ overtaken \in SUBSET Keys
  /\ forsaken \in SUBSET Cmds

Init ==
  /\ sess = <<>>
  /\ cache = [k \in Keys |-> 0]
  /\ disk = [k \in Keys |-> Empty(k)]
  /\ lock = None
  /\ pc = [c \in Cmds |-> "idle"]
  /\ key = [c \in Cmds |-> None]
  /\ at = [c \in Cmds |-> 0]
  /\ job = [c \in Cmds |-> NoJob]
  /\ history = <<>>
  /\ failures = 0
  /\ crashes = 0
  /\ overtaken = {}
  /\ forsaken = {}

-------------------------------------------------------------------------------
(* SessionManager *)

\* get_or_create(k): the cached object, or a new one loaded from the file.
Handle(k) == IF cache[k] # 0 THEN cache[k] ELSE Len(sess) + 1
\* Mutation of Heap: a cache miss starts an empty session without reading the file.
HeapNoLoad(k) == IF cache[k] # 0 THEN sess ELSE Append(sess, Empty(k))
Heap(k) == IF cache[k] # 0 THEN sess ELSE Append(sess, disk[k])

\* Mutation of Save: the file write is lost, only the cache is updated.
SaveCacheOnly(k, o, s) == UNCHANGED disk /\ cache' = [cache EXCEPT ![k] = o]

\* Mutation of Save: the file keeps the unconsolidated turns only.
SaveCompacted(k, o, s) ==
  LET tail == SubSeq(s.msgs, s.lc + 1, Len(s.msgs)) IN
  /\ disk' = [disk EXCEPT ![k] = [key |-> k, msgs |-> tail, lc |-> 0]]
  /\ cache' = [cache EXCEPT ![k] = o]

\* save(session): replace the file, then put this very object into the cache.
Save(k, o, s) ==
  /\ disk' = [disk EXCEPT ![k] = s]
  /\ cache' = [cache EXCEPT ![k] = o]

-------------------------------------------------------------------------------
(* MemoryConsolidator.maybe_consolidate_by_tokens *)

\* Mutation of LockFree: consolidations of one session are not serialised.
LockFreeAlways(k) == TRUE

\* The per-session asyncio.Lock is held across the awaits on the LLM only.
LockFree(k) == \A d \in Cmds : pc[d] \in Asking => key[d] # k

\* pick_consolidation_boundary: a user message after the first unconsolidated one.
Boundaries(s) == {e \in (s.lc + 1)..(Len(s.msgs) - 1) : s.msgs[e + 1] \in Turns}

\* Take the next chunk of s and await the LLM; it is this command's r-th round.
AskLLM(c, s, r) ==
  \E e \in Boundaries(s) :
    /\ job' = [job EXCEPT ![c] = [chunk |-> Slice(s, s.lc + 1, e), end |-> e, n |-> r]]
    /\ pc' = [pc EXCEPT ![c] = IF pc[c] \in Running THEN "ask" ELSE "bgask"]

\* Return from maybe_consolidate_by_tokens: the turn goes on, the background task ends.
Leave(c) ==
  /\ job' = [job EXCEPT ![c] = NoJob]
  /\ pc' = [pc EXCEPT ![c] = IF pc[c] \in Running THEN "think" ELSE "done"]

\* Acquire the lock and estimate the prompt: idle, no safe boundary, or a first chunk.
StartConsolidation(c) ==
  /\ pc[c] \in {"wait", "bgwait"}
  /\ \/ sess[at[c]].msgs = <<>> /\ Leave(c)
     \/ LockFree(key[c]) /\ (AskLLM(c, sess[at[c]], 1) \/ Leave(c))
  /\ UNCHANGED <<storage, lock, key, at, log, observers>>

\* The chunk is in HISTORY.md: move the offset, save, and go on to the next round.
Consolidated(c) ==
  LET s == [sess[at[c]] EXCEPT !.lc = job[c].end] IN
  /\ history' = Append(history, job[c].chunk)
  /\ failures' = 0
  /\ sess' = [sess EXCEPT ![at[c]] = s]
  /\ Save(key[c], at[c], s)
  /\ \/ job[c].n < MaxRounds /\ AskLLM(c, s, job[c].n + 1)
     \/ Leave(c)

\* The LLM returned a usable save_memory call.
ConsolidateOk(c) ==
  /\ pc[c] \in Asking
  /\ Consolidated(c)
  /\ UNCHANGED <<lock, key, at, observers>>

\* Mutation of ConsolidateFail: the counter is never compared with the threshold.
ConsolidateFailNoRaw(c) ==
  /\ pc[c] \in Asking
  /\ failures' = failures + 1
  /\ Leave(c)
  /\ UNCHANGED <<storage, history, lock, key, at, observers>>

\* Mutation of ConsolidateFail: the request is repeated for as long as it fails.
ConsolidateFailRetries(c) ==
  /\ pc[c] \in Asking
  /\ failures' = (failures + 1) % MaxFailures
  /\ UNCHANGED <<storage, history, pc, job, lock, key, at, observers>>

\* The LLM failed: give this consolidation up, or dump the chunk raw at the last failure.
ConsolidateFail(c) ==
  /\ pc[c] \in Asking
  /\ IF failures + 1 < MaxFailures
       THEN failures' = failures + 1 /\ Leave(c) /\ UNCHANGED <<storage, history>>
       ELSE Consolidated(c)
  /\ UNCHANGED <<lock, key, at, observers>>

-------------------------------------------------------------------------------
(* AgentLoop *)

\* _process_message up to its first await: chats under the lock, process_direct without.
BeginTurn(c, k) ==
  /\ pc[c] = "idle" /\ c \in Turns \cup Results
  /\ \/ k \in ChatKeys /\ lock = None /\ lock' = c
     \/ k \in DirectKeys /\ c \in Turns /\ UNCHANGED lock
  /\ key' = [key EXCEPT ![c] = k]
  /\ at' = [at EXCEPT ![c] = Handle(k)]
  /\ sess' = Heap(k)
  /\ cache' = [cache EXCEPT ![k] = Handle(k)]
  /\ pc' = [pc EXCEPT ![c] = IF Heap(k)[Handle(k)].msgs = <<>> THEN "think" ELSE "wait"]
  /\ UNCHANGED <<disk, job, log, observers>>

\* Leaving `async with self._processing_lock`; process_direct never took it.
Unlock(c) == lock' = IF lock = c THEN None ELSE lock

\* The agent loop has an answer: _save_turn, save, schedule a background consolidation.
CommitTurn(c) ==
  LET s == [sess[at[c]] EXCEPT !.msgs = Append(@, c)] IN
  /\ pc[c] = "think"
  /\ sess' = [sess EXCEPT ![at[c]] = s]
  /\ Save(key[c], at[c], s)
  /\ pc' = [pc EXCEPT ![c] = "bgwait"]
  /\ Unlock(c)
  /\ UNCHANGED <<key, at, job, log, observers>>

\* The turn is cancelled (/stop, a cancelled cron tick) or raises: nothing is saved.
AbortTurn(c) ==
  /\ pc[c] \in Running
  /\ pc' = [pc EXCEPT ![c] = "stopped"]
  /\ job' = [job EXCEPT ![c] = NoJob]
  /\ Unlock(c)
  /\ UNCHANGED <<storage, key, at, log, observers>>

\* "/new": snapshot the unconsolidated turns, clear, save, invalidate, archive later.
NewSession(c, k) ==
  LET o == Handle(k)
      s == Heap(k)[o]
      snapshot == Slice(s, s.lc + 1, Len(s.msgs)) IN
  /\ pc[c] = "idle" /\ c \in News /\ k \in ChatKeys /\ lock = None
  /\ key' = [key EXCEPT ![c] = k]
  /\ sess' = [Heap(k) EXCEPT ![o] = Empty(k)]
  /\ disk' = [disk EXCEPT ![k] = Empty(k)]
  /\ cache' = [cache EXCEPT ![k] = 0]
  /\ pc' = [pc EXCEPT ![c] = IF snapshot = {} THEN "done" ELSE "archive"]
  /\ job' = [job EXCEPT ![c].chunk = snapshot]
  /\ overtaken' = IF LockFree(k) THEN overtaken ELSE overtaken \cup {k}
  /\ UNCHANGED <<lock, at, log, crashes, forsaken>>

-------------------------------------------------------------------------------
(* MemoryConsolidator.archive_messages, the background task of "/new" *)

Archived(c) ==
  /\ history' = Append(history, job[c].chunk)
  /\ failures' = 0
  /\ pc' = [pc EXCEPT ![c] = "done"]
  /\ job' = [job EXCEPT ![c] = NoJob]
  /\ UNCHANGED forsaken

ArchiveOk(c) ==
  /\ pc[c] = "archive"
  /\ Archived(c)
  /\ UNCHANGED <<storage, lock, key, at, crashes, overtaken>>

\* A failed attempt: retried while attempts are left, then given up silently,
\* unless the shared counter reaches the threshold and the raw dump is written.
ArchiveFail(c) ==
  /\ pc[c] = "archive"
  /\ IF failures + 1 < MaxFailures
       THEN /\ failures' = failures + 1
            /\ UNCHANGED history
            /\ \/ /\ job[c].n + 1 < MaxFailures
                  /\ job' = [job EXCEPT ![c].n = @ + 1]
                  /\ UNCHANGED <<pc, forsaken>>
               \/ /\ job[c].n + 1 = MaxFailures
                  /\ pc' = [pc EXCEPT ![c] = "done"]
                  /\ job' = [job EXCEPT ![c] = NoJob]
                  /\ forsaken' = forsaken \cup job[c].chunk
       ELSE Archived(c)
  /\ UNCHANGED <<storage, lock, key, at, crashes, overtaken>>

-------------------------------------------------------------------------------
(* The process dies, or /restart replaces it by os.execv without draining. *)

\* Only files survive; entries is what HISTORY.md got just before the end.
Restart(entries) ==
  /\ crashes < MaxCrashes
  /\ crashes' = crashes + 1
  /\ history' = history \o entries
  /\ forsaken' = forsaken \cup UNION {job[c].chunk : c \in {d \in Cmds : pc[d] = "archive"}}
  /\ sess' = <<>>
  /\ cache' = [k \in Keys |-> 0]
  /\ lock' = None
  /\ pc' = [c \in Cmds |-> CASE pc[c] = "idle" -> "idle"
                             [] pc[c] \in Running \cup {"stopped"} -> "stopped"
                             [] OTHER -> "done"]
  /\ at' = [c \in Cmds |-> 0]
  /\ job' = [c \in Cmds |-> NoJob]
  /\ failures' = 0
  /\ UNCHANGED <<disk, key, overtaken>>

Crash == Restart(<<>>)

\* Killed after append_history and before the session file is replaced.
CrashBeforeSave == \E c \in Cmds : pc[c] \in Asking /\ Restart(<<job[c].chunk>>)

Next ==
  \/ \E c \in Cmds :
       \/ \E k \in Keys : BeginTurn(c, k) \/ NewSession(c, k)
       \/ StartConsolidation(c) \/ ConsolidateOk(c) \/ ConsolidateFail(c)
       \/ CommitTurn(c) \/ AbortTurn(c)
       \/ ArchiveOk(c) \/ ArchiveFail(c)
  \/ Crash \/ CrashBeforeSave

Spec == Init /\ [][Next]_vars

\* The event loop runs every ready task and every LLM call returns or times out;
\* commands need not arrive and nobody has to cancel anything.
Progress(c) ==
  \/ StartConsolidation(c) \/ ConsolidateOk(c) \/ ConsolidateFail(c)
  \/ CommitTurn(c) \/ ArchiveOk(c) \/ ArchiveFail(c)

FairSpec == Spec /\ \A c \in Cmds : WF_vars(Progress(c))

-------------------------------------------------------------------------------
(* Properties *)

TurnCmds == Turns \cup Results

\* The turn was committed: its answer went to the user.
Answered(c) == c \in TurnCmds /\ pc[c] \in {"bgwait", "bgask", "done"}

Logged == UNION {history[i] : i \in DOMAIN history}
InArchive(c) == \E d \in Cmds : pc[d] = "archive" /\ c \in job[d].chunk
OnDisk(c) == \E i \in DOMAIN disk[key[c]].msgs : disk[key[c]].msgs[i] = c

\* An answered turn is in its session's file, in HISTORY.md, or in an archive under
\* way, through consolidations, "/new", failures and restarts.  The only exceptions
\* are the two that the observers record: a "/new" that overtook a consolidation
\* awaiting the LLM, and an archive that gave up or died with the process.
NothingLost ==
  \A c \in Cmds : Answered(c) /\ key[c] \notin overtaken =>
    OnDisk(c) \/ c \in Logged \/ InArchive(c) \/ c \in forsaken

\* What get_history hides from the LLM has been archived: the offset never counts a
\* message that is not in HISTORY.md, nor one that does not exist.
HiddenIsArchived ==
  \A k \in Keys \ overtaken :
    /\ disk[k].lc <= Len(disk[k].msgs)
    /\ \A i \in 1..disk[k].lc : disk[k].msgs[i] \in Logged

\* Between two awaits the cached session and its file agree, so a restart changes
\* nothing for the conversations that were not in a turn.
CacheIsSaved == \A k \in Keys : cache[k] # 0 => sess[cache[k]] = disk[k]

\* The global lock is held exactly while a chat turn is running: no path out of a
\* turn (answer, exception, /stop, restart) leaves it locked.
LockHeld ==
  /\ lock # None => pc[lock] \in Running
  /\ \A c \in Cmds : pc[c] \in Running /\ key[c] \in ChatKeys => lock = c

\* Whatever path a turn takes, what it shares with the others is whole between two
\* awaits: the cached session and its file agree, and the lock is held exactly while
\* a chat turn is running.
BetweenAwaits == CacheIsSaved /\ LockHeld

\* Unless the process dies between the two writes, no turn is archived twice: the
\* per-session lock and the offset keep the chunks of concurrent tasks disjoint.
ArchivedOnce ==
  crashes = 0 =>
    \A i, j \in DOMAIN history : i # j =>
      \A c \in history[i] \cap history[j] : key[c] \in overtaken

\* A session's file is append-only and its offset never goes back, except at "/new".
IsNewSession(k) == \E c \in News : pc[c] = "idle" /\ pc'[c] # "idle" /\ key'[c] = k
Extends(s, t) ==
  /\ Len(s.msgs) <= Len(t.msgs) /\ s.lc <= t.lc
  /\ \A i \in DOMAIN s.msgs : t.msgs[i] = s.msgs[i]
AppendOnly ==
  [][\A k \in Keys \ overtaken : Extends(disk[k], disk'[k]) \/ IsNewSession(k)]_vars

\* Every command that arrived comes to rest (each arrives once): turns are answered,
\* aborted or killed, and the consolidations and archives they leave behind end.
Settles == <>[](\A c \in Cmds : pc[c] \in {"idle", "stopped", "done"})
===============================================================================
