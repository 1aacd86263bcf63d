-------------------------------- MODULE Logger --------------------------------
(***************************************************************************)
(* loguru (src/include/loguru.hpp), the logger that the program is linked  *)
(* with when it is made WITH_LOGURU=y: messages, scopes and log files with *)
(* LOGURU_WITH_FILEABS, from several threads, up to abort() or the end of  *)
(* the program.  Signals are left out: the mutex is recursive, so that the *)
(* handler may run in the middle of what its thread does under the mutex,  *)
(* and nothing is claimed of a program from the first one on.              *)
(*                                                                         *)
(* What is done under s_mutex is split where a thread without the mutex    *)
(* can see the difference.  A stream is what fopen returns: its messages,  *)
(* in order, and how many of them have been flushed; the first stream is   *)
(* stderr.  Preambles, colours, stack traces and the text of messages are  *)
(* left out.  A file that is reopened does so without a check of another   *)
(* file in between, and leaves one note in each stream, number 0, however  *)
(* many messages about it the stream gets.                                 *)
(***************************************************************************)
EXTENDS Integers, Sequences, FiniteSets, SequencesExt, FiniteSetsExt

CONSTANTS
  Threads,      \* the threads of the program
  Main,         \* the one that runs main(), which adds and removes the files
  Paths,        \* the paths of log files
  Levels,       \* the verbosities of files and of the messages of the program
  Settings,     \* what the flush interval and the verbosity of stderr may be
  MaxCalls,     \* bound on the calls of each thread
  MaxRotations  \* bound on the changes of files by others

OFF   == -9
FATAL == -3
ERROR == -2
INFO  == 0

ASSUME ThreadsAssumption == Main \in Threads /\ "free" \notin Threads

(* Verbosity_OFF is for stderr only. *)
ASSUME LevelsAssumption == \A v \in Levels : v \in Int /\ v >= FATAL

ASSUME SettingsAssumption == Settings \subseteq Nat \X Int

VARIABLES
  g_flush_interval_ms,    \* zero: flush each message
  g_stderr_verbosity,
  s_callbacks,            \* the log files, in the order they were added
  s_max_out_verbosity,
  s_stderr_indentation,
  s_needs_flushing,
  s_flush_thread,         \* "none", "polls" or "flushes"
  s_mutex,                \* the thread that holds it, or "free"
  th,                     \* where each thread is
  streams,
  disk,                   \* how often the file at each path was moved or replaced
  ended,                  \* how the program has ended
  levels,                 \* history: the verbosities of all messages
  lost,                   \* history: messages that a file which is not open did not get
  dropped,                \* history: wanted messages that were dropped, see Check
  misuse,                 \* history: who has used a stream that was closed
  calls, rotations        \* what is bounded

settings == <<g_flush_interval_ms, g_stderr_verbosity>>
bounds   == <<calls, rotations>>
vars == <<settings, s_callbacks, s_max_out_verbosity, s_stderr_indentation,
          s_needs_flushing, s_flush_thread, s_mutex, th, streams, disk, ended,
          levels, lost, dropped, misuse, bounds>>

Buffered == g_flush_interval_ms > 0

Idle == [pc |-> "idle", op |-> "log", v |-> INFO, next |-> "idle", i |-> 0,
         path |-> "", file |-> 0, level |-> INFO]

Stream(path) == [path |-> path, open |-> TRUE, text |-> <<>>, flushed |-> 0]

Init ==
  /\ \E s \in Settings : g_flush_interval_ms = s[1] /\ g_stderr_verbosity = s[2]
  /\ s_callbacks = <<>>
  /\ s_max_out_verbosity = OFF
  /\ s_stderr_indentation = 0
  /\ s_needs_flushing = FALSE
  /\ s_flush_thread = "none"
  /\ s_mutex = "free"
  /\ th = [t \in Threads |-> [at |-> Idle, scopes |-> <<>>]]
  /\ streams = <<Stream("stderr")>>
  /\ disk = [p \in Paths |-> 0]
  /\ ended = ""
  /\ levels = <<>>
  /\ lost = {} /\ dropped = {} /\ misuse = {}
  /\ calls = [t \in Threads |-> 0] /\ rotations = 0

-----------------------------------------------------------------------------
(* Streams. *)
fprintf(ss, files, m) ==
  [f \in DOMAIN ss |->
     IF f \in files THEN [ss[f] EXCEPT !.text = Append(@, m)] ELSE ss[f]]

Flushed(ss, files) ==
  [f \in DOMAIN ss |->
     IF f \in files THEN [ss[f] EXCEPT !.flushed = Len(ss[f].text)] ELSE ss[f]]

fclose(ss, files) ==
  [f \in DOMAIN ss |->
     IF f \in files THEN [ss[f] EXCEPT !.flushed = Len(ss[f].text), !.open = FALSE]
                    ELSE ss[f]]

Files(callbacks) == {callbacks[i].fp : i \in DOMAIN callbacks} \ {0}

(* flush(): stderr and every file. *)
OnlyStderr(ss, callbacks) == Flushed(ss, {1})                \* mutant of FlushAll
FlushAll(ss, callbacks) == Flushed(ss, {1} \cup Files(callbacks))

current_verbosity_cutoff ==
  IF g_stderr_verbosity > s_max_out_verbosity
  THEN g_stderr_verbosity ELSE s_max_out_verbosity

(***************************************************************************)
(* The file of callback i is closed and opened again.  That it is reopened *)
(* is logged, and if its directory cannot be made or the file not opened,  *)
(* an error.  These messages go to the other files, and to this one only   *)
(* the flush after those of before fopen, which finds the stream closed.   *)
(***************************************************************************)
(* No stream, no file at the path (stat fails), or another inode there. *)
IsStale(c) == c.fp = 0 \/ disk[c.path] # c.ino

Note(ss, i, v) ==
  LET others == {j \in DOMAIN s_callbacks \ {i} :
                   v <= s_callbacks[j].verbosity /\ s_callbacks[j].fp # 0}
      to == {s_callbacks[j].fp : j \in others}
            \cup (IF v <= g_stderr_verbosity THEN {1} ELSE {})
      written == fprintf(ss, to, 0)
  IN  IF Buffered THEN written ELSE Flushed(written, to)

FlushesItself(i, v) ==
  /\ ~Buffered /\ s_callbacks[i].fp # 0
  /\ v <= s_callbacks[i].verbosity /\ v <= current_verbosity_cutoff

Closed(i, v) == Note(fclose(streams, {s_callbacks[i].fp} \ {0}), i, v)

Unchecked(i) == [c |-> s_callbacks[i], streams |-> streams, misuse |-> misuse]

(* The directory of the path is there, or made, and the path is opened. *)
Failed(made, opened) == IF made /\ opened THEN INFO ELSE ERROR

KeepsTheClosed(i, made, opened) ==                           \* mutant of file_reopen
  IF ~IsStale(s_callbacks[i]) \/ opened THEN Unchecked(i)
  ELSE [Unchecked(i) EXCEPT !.streams = Closed(i, Failed(made, opened))]
file_reopen(i, made, opened) ==
  LET c      == s_callbacks[i]
      closed == Closed(i, Failed(made, opened))
  IN  IF ~IsStale(c)
      THEN Unchecked(i)
      ELSE [c |-> IF opened THEN [c EXCEPT !.fp = Len(closed) + 1, !.ino = disk[c.path]]
                            ELSE [c EXCEPT !.fp = 0],
            streams |-> IF opened THEN Append(closed, Stream(c.path)) ELSE closed,
            misuse |-> misuse \cup IF FlushesItself(i, IF made THEN INFO ELSE ERROR)
                                   THEN {"file_flush"} ELSE {}]

-----------------------------------------------------------------------------
(* The threads. *)
Running == ended = ""
At(t, pc) == Running /\ th[t].at.pc = pc
Becomes(t, at, scopes) == th' = [th EXCEPT ![t] = [at |-> at, scopes |-> scopes]]
GoTo(t, at) == Becomes(t, at, th[t].scopes)
Goes(t, pc) == GoTo(t, IF pc = "idle" THEN Idle ELSE [th[t].at EXCEPT !.pc = pc])
Says(at, v, op, next) ==
  [at EXCEPT !.pc = "check", !.v = v, !.op = op, !.next = next]

Calls(t) ==
  /\ At(t, "idle")
  /\ calls[t] < MaxCalls[t]
  /\ calls' = [calls EXCEPT ![t] = @ + 1]

logging == <<s_callbacks, s_max_out_verbosity, s_stderr_indentation, s_needs_flushing,
             s_flush_thread, s_mutex, streams, disk, ended, levels, lost, dropped, misuse>>

(* LOG_F, LOG_SCOPE_F and ABORT_F. *)
Call(t) ==
  /\ Calls(t)
  /\ \E v \in Levels \cup {FATAL}, op \in {"log", "begin"} :
       /\ v = FATAL => op = "log"
       /\ GoTo(t, Says(Idle, v, op, "idle"))
  /\ UNCHANGED <<settings, logging, rotations>>

(* ~LogScopeRAII *)
EndScope(t) ==
  /\ At(t, "idle") /\ th[t].scopes # <<>>
  /\ GoTo(t, [Idle EXCEPT !.pc = "enter", !.op = "end", !.v = Last(th[t].scopes).v])
  /\ UNCHANGED <<settings, logging, bounds>>

(***************************************************************************)
(* The macros compare the verbosity without the mutex.  If a file would    *)
(* have taken the message, it is recorded whether the files were changing. *)
(***************************************************************************)
Wanting(v) == {i \in DOMAIN s_callbacks : v <= s_callbacks[i].verbosity}
Changing  == \E t \in Threads : th[t].at.pc = "maximum"

Check(t) ==
  LET at == th[t].at
      passes == at.v <= current_verbosity_cutoff
  IN  /\ At(t, "check")
      /\ Goes(t, IF passes THEN "enter" ELSE at.next)
      /\ dropped' = IF passes THEN dropped
                    ELSE dropped \cup {Changing : i \in Wanting(at.v)}
      /\ UNCHANGED <<settings, s_callbacks, s_max_out_verbosity, s_stderr_indentation,
                     s_needs_flushing, s_flush_thread, s_mutex, streams, disk, ended,
                     levels, lost, misuse, bounds>>

Wrapped(n) == IF n > 0 THEN n - 1 ELSE 2147483647            \* mutant of Unindented
Unindented(n) == IF n > 0 THEN n - 1 ELSE 0

(* The files after the beginning, or the end, of a scope. *)
Indented(v, begins) ==
  [i \in DOMAIN s_callbacks |->
     IF v <= s_callbacks[i].verbosity
     THEN [s_callbacks[i] EXCEPT !.indentation = IF begins THEN @ + 1 ELSE Unindented(@)]
     ELSE s_callbacks[i]]

(***************************************************************************)
(* log_message: the mutex is taken and stderr written; a scope that ends   *)
(* has taken its indentation back before.                                  *)
(***************************************************************************)
Barge(t) == TRUE                                             \* mutant of MayEnter
MayEnter(t) == s_mutex = "free"

Enter(t) ==
  LET at == th[t].at
      toStderr == at.v <= g_stderr_verbosity
      m == Len(levels) + 1
      written == IF toStderr THEN fprintf(streams, {1}, m) ELSE streams
  IN  /\ At(t, "enter") /\ MayEnter(t)
      /\ s_mutex' = t
      /\ levels' = Append(levels, at.v)
      /\ streams' = IF Buffered THEN written ELSE Flushed(written, {1})
      /\ s_needs_flushing' = (s_needs_flushing \/ (Buffered /\ toStderr))
      /\ Becomes(t, [at EXCEPT !.pc = "deliver", !.i = 1, !.file = m],
                 IF at.op = "end" THEN Front(th[t].scopes) ELSE th[t].scopes)
      /\ IF at.op = "end"
         THEN /\ s_callbacks' = Indented(at.v, FALSE)
              /\ s_stderr_indentation' = IF Last(th[t].scopes).indents
                   THEN Unindented(s_stderr_indentation) ELSE s_stderr_indentation
         ELSE UNCHANGED <<s_callbacks, s_stderr_indentation>>
      /\ UNCHANGED <<settings, s_max_out_verbosity, s_flush_thread, disk, ended,
                     lost, dropped, misuse, bounds>>

(* file_log of callback i; the file is checked if a second has passed. *)
Sent(t) == th[t].at.file

ReopenOnly(t, i, checks, made, opened) ==                    \* mutant of file_log
  LET r == IF checks THEN file_reopen(i, made, opened) ELSE Unchecked(i)
  IN  IF r.c.fp = 0 \/ r.c # s_callbacks[i] THEN r
      ELSE [r EXCEPT !.streams = fprintf(@, {r.c.fp}, Sent(t))]
file_log(t, i, checks, made, opened) ==
  LET r == IF checks THEN file_reopen(i, made, opened) ELSE Unchecked(i)
  IN  IF r.c.fp = 0 THEN r
      ELSE [r EXCEPT !.streams = fprintf(@, {r.c.fp}, Sent(t)),
                     !.misuse = IF r.streams[r.c.fp].open THEN @ ELSE @ \cup {"file_log"}]

Take(t, i, r) ==
  /\ s_callbacks' = [s_callbacks EXCEPT ![i] = r.c]
  /\ streams' = IF Buffered \/ r.c.fp = 0 THEN r.streams ELSE Flushed(r.streams, {r.c.fp})
  /\ misuse' = r.misuse
  /\ lost' = IF r.c.fp = 0 THEN lost \cup {<<r.c.path, Sent(t)>>} ELSE lost
  /\ s_needs_flushing' = (s_needs_flushing \/ Buffered)

Deliver(t) ==
  LET i == th[t].at.i
      takes == th[t].at.v <= s_callbacks[i].verbosity
  IN  /\ At(t, "deliver") /\ i <= Len(s_callbacks)
      /\ GoTo(t, [th[t].at EXCEPT !.i = i + 1])
      /\ IF takes
         THEN \E checks, made, opened \in BOOLEAN :
                Take(t, i, file_log(t, i, checks, made, opened))
         ELSE UNCHANGED <<s_callbacks, streams, misuse, lost, s_needs_flushing>>
      /\ UNCHANGED <<settings, s_max_out_verbosity, s_stderr_indentation, s_flush_thread,
                     s_mutex, disk, ended, levels, dropped, bounds>>

(* A scope that has written its first message indents what follows. *)
BeginScope(t, v) ==
  LET indents == v <= g_stderr_verbosity
  IN  /\ s_stderr_indentation' = IF indents THEN s_stderr_indentation + 1
                                 ELSE s_stderr_indentation
      /\ s_callbacks' = Indented(v, TRUE)
      /\ Becomes(t, Idle, Append(th[t].scopes, [v |-> v, indents |-> indents]))

(* The end of log_message. *)
Finish(t) ==
  LET at == th[t].at
  IN  /\ At(t, "deliver") /\ at.i > Len(s_callbacks)
      /\ s_flush_thread' = IF Buffered /\ s_flush_thread = "none" THEN "polls"
                           ELSE s_flush_thread
      /\ IF at.v = FATAL
         THEN /\ streams' = FlushAll(streams, s_callbacks)
              /\ s_needs_flushing' = FALSE
              /\ ended' = "aborted"
         ELSE UNCHANGED <<streams, s_needs_flushing, ended>>
      /\ IF at.op = "begin"
         THEN BeginScope(t, at.v)
         ELSE /\ Goes(t, at.next)
              /\ UNCHANGED <<s_stderr_indentation, s_callbacks>>
      /\ s_mutex' = "free"
      /\ UNCHANGED <<settings, s_max_out_verbosity, disk, levels, lost, dropped, misuse, bounds>>

-----------------------------------------------------------------------------
(* add_file: what comes after add_callback is done without the mutex. *)
AddFile ==
  /\ Calls(Main)
  /\ \E p \in Paths, level \in Levels, opens \in BOOLEAN :
       IF opens
       THEN /\ streams' = Append(streams, Stream(p))
            /\ GoTo(Main, [Idle EXCEPT !.pc = "add", !.path = p, !.level = level,
                                    !.file = Len(streams) + 1])
       ELSE /\ GoTo(Main, Says(Idle, ERROR, "log", "idle"))
            /\ UNCHANGED streams
  /\ UNCHANGED <<settings, s_callbacks, s_max_out_verbosity, s_stderr_indentation,
                 s_needs_flushing, s_flush_thread, s_mutex, disk, ended, levels, lost,
                 dropped, misuse, rotations>>

(* on_callback_change: OFF first, and then the maximum. *)
Change(t, callbacks, pc) ==
  /\ s_mutex = "free" /\ s_mutex' = t
  /\ s_callbacks' = callbacks
  /\ s_max_out_verbosity' = OFF
  /\ GoTo(t, [th[t].at EXCEPT !.pc = "maximum", !.next = pc])

AddCallback(t) ==
  LET at == th[t].at
  IN  /\ At(t, "add")
      /\ Change(t, Append(s_callbacks,
                  [path |-> at.path, fp |-> at.file, verbosity |-> at.level,
                   indentation |-> 0, ino |-> disk[at.path], since |-> Len(levels)]),
                "header")
      /\ UNCHANGED <<settings, s_stderr_indentation, s_needs_flushing, s_flush_thread,
                     streams, disk, ended, levels, lost, dropped, misuse, bounds>>

LastOf(callbacks) ==                                         \* mutant of MaximumOf
  IF callbacks = <<>> THEN OFF ELSE Last(callbacks).verbosity
MaximumOf(callbacks) == Max({OFF} \cup {callbacks[i].verbosity : i \in DOMAIN callbacks})

Maximum(t) ==
  /\ At(t, "maximum")
  /\ s_max_out_verbosity' = MaximumOf(s_callbacks)
  /\ s_mutex' = "free"
  /\ Goes(t, th[t].at.next)
  /\ UNCHANGED <<settings, s_callbacks, s_stderr_indentation, s_needs_flushing,
                 s_flush_thread, streams, disk, ended, levels, lost, dropped, misuse, bounds>>

Header(t) ==
  /\ At(t, "header")
  /\ misuse' = IF streams[th[t].at.file].open THEN misuse ELSE misuse \cup {"add_file"}
  /\ GoTo(t, Says(Idle, INFO, "log", "idle"))
  /\ UNCHANGED <<settings, s_callbacks, s_max_out_verbosity, s_stderr_indentation,
                 s_needs_flushing, s_flush_thread, s_mutex, streams, disk, ended,
                 levels, lost, dropped, bounds>>

(* remove_callback closes the first file with the path. *)
RemoveCallback ==
  /\ Calls(Main)
  /\ \E p \in Paths :
       LET found == {i \in DOMAIN s_callbacks : s_callbacks[i].path = p}
       IN  IF found # {}
           THEN /\ Change(Main, RemoveAt(s_callbacks, Min(found)), "idle")
                /\ streams' = fclose(streams, {s_callbacks[Min(found)].fp} \ {0})
           ELSE /\ GoTo(Main, Says(Idle, ERROR, "log", "idle"))
                /\ UNCHANGED <<s_mutex, s_callbacks, s_max_out_verbosity, streams>>
  /\ UNCHANGED <<settings, s_stderr_indentation, s_needs_flushing, s_flush_thread,
                 disk, ended, levels, lost, dropped, misuse, rotations>>

(* shutdown: a message, and then remove_all_callbacks. *)
Shutdown ==
  /\ Calls(Main)
  /\ GoTo(Main, Says(Idle, INFO, "log", "remove all"))
  /\ UNCHANGED <<settings, logging, rotations>>

RemoveAllCallbacks(t) ==
  /\ At(t, "remove all")
  /\ Change(t, <<>>, "idle")
  /\ streams' = fclose(streams, Files(s_callbacks))
  /\ UNCHANGED <<settings, s_stderr_indentation, s_needs_flushing, s_flush_thread,
                 disk, ended, levels, lost, dropped, misuse, bounds>>

(* on_atexit: a message, and then flush. *)
Exit ==
  /\ Calls(Main) /\ th[Main].scopes = <<>>
  /\ GoTo(Main, Says(Idle, INFO, "log", "flush"))
  /\ UNCHANGED <<settings, logging, rotations>>

AtExit ==
  /\ At(Main, "flush") /\ s_mutex = "free"
  /\ streams' = FlushAll(streams, s_callbacks)
  /\ s_needs_flushing' = FALSE
  /\ ended' = "exited"
  /\ th' = [t \in Threads |-> [at |-> Idle, scopes |-> th[t].scopes]]
  /\ UNCHANGED <<settings, s_callbacks, s_max_out_verbosity, s_stderr_indentation,
                 s_flush_thread, s_mutex, disk, levels, lost, dropped, misuse, bounds>>

-----------------------------------------------------------------------------
(* The flush thread reads s_needs_flushing without the mutex. *)
Poll ==
  /\ Running /\ s_flush_thread = "polls" /\ s_needs_flushing
  /\ s_flush_thread' = "flushes"
  /\ UNCHANGED <<settings, s_callbacks, s_max_out_verbosity, s_stderr_indentation,
                 s_needs_flushing, s_mutex, th, streams, disk, ended, levels, lost,
                 dropped, misuse, bounds>>

FlushThread ==
  /\ Running /\ s_flush_thread = "flushes" /\ s_mutex = "free"
  /\ streams' = FlushAll(streams, s_callbacks)
  /\ s_needs_flushing' = FALSE
  /\ s_flush_thread' = "polls"
  /\ UNCHANGED <<settings, s_callbacks, s_max_out_verbosity, s_stderr_indentation,
                 s_mutex, th, disk, ended, levels, lost, dropped, misuse, bounds>>

(* A file is moved away by somebody, and perhaps another one put there. *)
Rotate ==
  /\ Running /\ rotations < MaxRotations
  /\ \E p \in Paths : disk' = [disk EXCEPT ![p] = @ + 1]
  /\ rotations' = rotations + 1
  /\ UNCHANGED <<settings, s_callbacks, s_max_out_verbosity, s_stderr_indentation,
                 s_needs_flushing, s_flush_thread, s_mutex, th, streams, ended, levels,
                 lost, dropped, misuse, calls>>

(* The program may also wait for ever, where the bounds leave it no call. *)
HasEnded ==
  /\ ended # "" \/ \A t \in Threads : th[t].at.pc = "idle"
  /\ UNCHANGED vars

(* What a thread does in the middle of a call. *)
Continue(t) ==
  \/ Check(t) \/ Enter(t) \/ Deliver(t) \/ Finish(t)
  \/ AddCallback(t) \/ Maximum(t) \/ Header(t) \/ RemoveAllCallbacks(t)

Next ==
  \/ \E t \in Threads :
       Call(t) \/ EndScope(t) \/ Continue(t)
  \/ AddFile \/ RemoveCallback \/ Shutdown
  \/ Exit \/ AtExit
  \/ Poll \/ FlushThread
  \/ Rotate
  \/ HasEnded

Spec == Init /\ [][Next]_vars

(* A call goes on, the mutex is given up, and the flush thread is woken. *)
Fairness ==
  /\ \A t \in Threads : WF_vars(Continue(t))
  /\ WF_vars(Poll)
  /\ WF_vars(FlushThread)

FairSpec == Spec /\ Fairness

-----------------------------------------------------------------------------
(* The scopes that have begun and not ended, of all threads. *)
OpenScopes == UNION {{t} \X DOMAIN th[t].scopes : t \in Threads}
Scope(s)   == th[s[1]].scopes[s[2]]
Indenting  == {s \in OpenScopes : Scope(s).indents}
Covering(v) == {s \in OpenScopes : Scope(s).v <= v}

(* The type of every variable, and who has the mutex. *)
TypeOK ==
  /\ s_mutex \in Threads \cup {"free"}
  /\ \A t \in Threads : th[t].at.pc \in {"deliver", "maximum"} => s_mutex = t
  /\ s_flush_thread \in {"none", "polls", "flushes"}
  /\ ended \in {"", "aborted", "exited"}
  /\ \A i \in DOMAIN s_callbacks : s_callbacks[i].fp \in {0} \cup DOMAIN streams
  /\ \A f \in DOMAIN streams : streams[f].flushed \in 0 .. Len(streams[f].text)

(***************************************************************************)
(* Every file and stderr have the messages of all threads in one order.    *)
(***************************************************************************)
OneOrder ==
  \A f \in DOMAIN streams :
    LET text == streams[f].text
    IN  \A i, j \in DOMAIN text : i < j /\ text[i] > 0 /\ text[j] > 0 => text[i] < text[j]

(***************************************************************************)
(* A message is in every file that was registered for it, the message that *)
(* finds the file moved too, but where the file could not be opened again. *)
(***************************************************************************)
InDelivery(m) == \E t \in Threads : th[t].at.pc = "deliver" /\ th[t].at.file = m

EveryFileHasIt ==
  \A i \in DOMAIN s_callbacks :
    LET c == s_callbacks[i]
    IN  \A m \in c.since + 1 .. Len(levels) :
          levels[m] <= c.verbosity /\ ~InDelivery(m) =>
            \/ <<c.path, m>> \in lost
            \/ \E f \in DOMAIN streams : streams[f].path = c.path /\ Contains(streams[f].text, m)

(***************************************************************************)
(* The check without the mutex drops a message that a file would take only *)
(* while another thread is in the middle of on_callback_change.            *)
(***************************************************************************)
DropsOnlyInAChange == dropped \subseteq {TRUE}

(***************************************************************************)
(* A stream is used after it was closed only by add_file, which goes on    *)
(* with it without the mutex, and, when each message is flushed, by the    *)
(* flush after the messages about a file that is being reopened.           *)
(***************************************************************************)
ClosedOnlyThere ==
  misuse \subseteq {"add_file"} \cup IF Buffered THEN {} ELSE {"file_flush"}

(***************************************************************************)
(* Scopes: the indentation of stderr is that of the open scopes, and that  *)
(* of a file never more than theirs, although a file may be added while a  *)
(* scope is open, which then takes back what it has not given.             *)
(***************************************************************************)
IndentedByOpenScopes ==
  /\ s_stderr_indentation = Cardinality(Indenting)
  /\ \A i \in DOMAIN s_callbacks :
       s_callbacks[i].indentation <= Cardinality(Covering(s_callbacks[i].verbosity))

(***************************************************************************)
(* When the program has ended nothing is left in a buffer, and when it was *)
(* aborted, the last message is in every file that is open.                *)
(***************************************************************************)
TheLastWordIsWritten ==
  ended # "" =>
    \A f \in Files(s_callbacks) :
      /\ ended = "aborted" => Contains(streams[f].text, Len(levels))
      /\ streams[f].flushed = Len(streams[f].text)

(***************************************************************************)
(* With a flush interval, whatever has been written is flushed some time:  *)
(* again and again no stream has anything in its buffer.                   *)
(***************************************************************************)
EverythingIsFlushed ==
  []<>(ended # "" \/ \A f \in DOMAIN streams : streams[f].flushed = Len(streams[f].text))

=============================================================================
