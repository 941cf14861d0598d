------------------------------- MODULE Logger -------------------------------
(***************************************************************************)
(* The logger of the C++ programs: each thread pushes its messages to one  *)
(* queue, and a thread that the first getInstance starts writes them to a  *)
(* file.  The main thread of every program logs before it serves or starts *)
(* anything, so only it finds m_instance null.  Main returns when the work *)
(* of a batch program is done, or when a server fails.                     *)
(***************************************************************************)
EXTENDS Naturals, Sequences

CONSTANTS
  Main, Workers,     \* the thread of main, and those a server starts after it
  MaxMessages        \* bound: the messages of each thread

Threads == Workers \cup {Main}
Free    == "free"
Writer  == "writer"

ASSUME LoggerAssumption ==
  /\ MaxMessages \in Nat \ {0}
  /\ Free \notin Threads /\ Writer \notin Threads

VARIABLES
  m_instance,            \* whether getInstance has made the logger
  m_log_messages,        \* the queue
  m_logger_mutex_queue,  \* who holds the mutex of the queue: a thread, the writer, or no one
  found,                 \* the queue as each thread finds it that is about to push a message
  log_fut,               \* where the thread of writelog is
  m_logfile,             \* the messages it has written
  returned,              \* main has returned, and every thread is gone
  sent, logged           \* history: how many messages each thread pushed, and the order of all

vars == <<m_instance, m_log_messages, m_logger_mutex_queue, found, log_fut, m_logfile,
          returned, sent, logged>>
writer == <<log_fut, m_logfile>>

Init ==
  /\ m_instance = FALSE
  /\ m_log_messages = <<>> /\ m_logger_mutex_queue = Free /\ found = [t \in Threads |-> <<>>]
  /\ log_fut = "none" /\ m_logfile = <<>>
  /\ returned = FALSE
  /\ sent = [t \in Threads |-> 0] /\ logged = <<>>

-----------------------------------------------------------------------------
(* The first call makes the logger, and std::async its thread. *)
getInstance(t) ==
  /\ ~returned /\ t = Main /\ ~m_instance
  /\ m_instance' = TRUE /\ log_fut' = "opening"
  /\ UNCHANGED <<m_log_messages, m_logger_mutex_queue, found, m_logfile, returned, sent, logged>>

(* Seeded fault: a thread pushes its message without the mutex. *)
LockNothing(t) ==
  /\ ~returned /\ m_instance /\ sent[t] < MaxMessages
  /\ t = Main \/ sent[Main] > 0
  /\ m_logger_mutex_queue' = t
  /\ found' = [found EXCEPT ![t] = m_log_messages]
  /\ UNCHANGED <<m_instance, m_log_messages, writer, returned, sent, logged>>

(* info, warn and error: push_log takes the mutex, *)
Lock(t) ==
  /\ ~returned /\ m_instance /\ sent[t] < MaxMessages
  /\ t = Main \/ sent[Main] > 0
  /\ m_logger_mutex_queue = Free /\ m_logger_mutex_queue' = t
  /\ found' = [found EXCEPT ![t] = m_log_messages]
  /\ UNCHANGED <<m_instance, m_log_messages, writer, returned, sent, logged>>

Message(t) == [thread |-> t, number |-> sent[t] + 1]

(* Seeded fault: push_log notifies only when the queue has more than its own message. *)
PushQuietly(t) ==
  /\ ~returned /\ m_logger_mutex_queue = t
  /\ m_log_messages' = Append(found[t], Message(t))
  /\ log_fut' = IF log_fut = "waiting" /\ found[t] # <<>> THEN "notified" ELSE log_fut
  /\ m_logger_mutex_queue' = Free
  /\ sent' = [sent EXCEPT ![t] = @ + 1] /\ logged' = Append(logged, Message(t))
  /\ UNCHANGED <<m_instance, found, m_logfile, returned>>

(* adds the message, notifies the thread that writes, and lets the mutex go. *)
Push(t) ==
  /\ ~returned /\ m_logger_mutex_queue = t
  /\ m_log_messages' = Append(found[t], Message(t))
  /\ log_fut' = IF log_fut = "waiting" THEN "notified" ELSE log_fut
  /\ m_logger_mutex_queue' = Free
  /\ sent' = [sent EXCEPT ![t] = @ + 1] /\ logged' = Append(logged, Message(t))
  /\ UNCHANGED <<m_instance, found, m_logfile, returned>>

(* Main waits for nothing when it returns: the logger is never destroyed, and its thread goes with
   the process. *)
Return ==
  /\ ~returned /\ sent[Main] > 0 /\ m_logger_mutex_queue # Main
  /\ returned' = TRUE
  /\ UNCHANGED <<m_instance, m_log_messages, m_logger_mutex_queue, found, writer, sent, logged>>

-----------------------------------------------------------------------------
(* writelog opens the file; *)
Open ==
  /\ ~returned /\ log_fut = "opening" /\ log_fut' = "looping"
  /\ UNCHANGED <<m_instance, m_log_messages, m_logger_mutex_queue, found, m_logfile, returned, sent, logged>>

(* takes the mutex; *)
Loop ==
  /\ ~returned /\ log_fut = "looping" /\ m_logger_mutex_queue = Free
  /\ m_logger_mutex_queue' = Writer /\ log_fut' = "writing"
  /\ UNCHANGED <<m_instance, m_log_messages, found, m_logfile, returned, sent, logged>>

(* Seeded fault: it takes a message before it looks whether there is one. *)
WriteAnyway ==
  /\ ~returned /\ log_fut = "writing"
  /\ IF m_log_messages = <<>>
     THEN m_logfile' = Append(m_logfile, [thread |-> Free, number |-> 0]) /\ UNCHANGED m_log_messages
     ELSE m_logfile' = Append(m_logfile, Head(m_log_messages)) /\ m_log_messages' = Tail(m_log_messages)
  /\ UNCHANGED <<m_instance, m_logger_mutex_queue, found, log_fut, returned, sent, logged>>

(* writes the first message of the queue, and so on while there is one; *)
Write ==
  /\ ~returned /\ log_fut = "writing" /\ m_log_messages # <<>>
  /\ m_logfile' = Append(m_logfile, Head(m_log_messages))
  /\ m_log_messages' = Tail(m_log_messages)
  /\ UNCHANGED <<m_instance, m_logger_mutex_queue, found, log_fut, returned, sent, logged>>

(* Seeded fault: it waits when it has written one message. *)
WaitAfterOne ==
  /\ ~returned /\ log_fut = "writing"
  /\ m_logger_mutex_queue' = Free /\ log_fut' = "waiting"
  /\ UNCHANGED <<m_instance, m_log_messages, found, m_logfile, returned, sent, logged>>

(* lets the mutex go and waits, in one step of the condition variable; *)
Wait ==
  /\ ~returned /\ log_fut = "writing" /\ m_log_messages = <<>>
  /\ m_logger_mutex_queue' = Free /\ log_fut' = "waiting"
  /\ UNCHANGED <<m_instance, m_log_messages, found, m_logfile, returned, sent, logged>>

(* wakes, notified or not, and takes the mutex before it can let it go at the end of the loop. *)
Wake ==
  /\ ~returned /\ log_fut \in {"waiting", "notified"} /\ m_logger_mutex_queue = Free
  /\ log_fut' = "looping"
  /\ UNCHANGED <<m_instance, m_log_messages, m_logger_mutex_queue, found, m_logfile, returned, sent, logged>>

writelog == Open \/ Loop \/ Write \/ Wait \/ (log_fut = "notified" /\ Wake)

Next ==
  \/ \E t \in Threads : getInstance(t) \/ Lock(t) \/ Push(t)
  \/ writelog \/ Wake \/ Return

Spec == Init /\ [][Next]_vars

(* The threads run.  A mutex promises no turn to who waits for it, and a thread that waits wakes
   when it is notified, but need not otherwise. *)
FairSpec == Spec /\ WF_vars(writelog) /\ \A t \in Threads : WF_vars(Push(t))

-----------------------------------------------------------------------------
Messages == [thread : Threads, number : 1..MaxMessages]

(* Values have the types the code gives them. *)
TypeOK ==
  /\ m_instance \in BOOLEAN /\ returned \in BOOLEAN
  /\ m_log_messages \in Seq(Messages) /\ m_logfile \in Seq(Messages) /\ logged \in Seq(Messages)
  /\ m_logger_mutex_queue \in Threads \cup {Free, Writer}
  /\ log_fut \in {"none", "opening", "looping", "writing", "waiting", "notified"}
  /\ sent \in [Threads -> 0..MaxMessages]
  /\ found \in [Threads -> Seq(Messages)]

(* Whatever threads log at once, the file and then the queue have every message that was logged,
   once and in the order it was logged. *)
NothingLost == m_logfile \o m_log_messages = logged

(* The thread that writes never waits for a notification that has come and gone. *)
NotMissed == log_fut = "waiting" => m_log_messages = <<>>

(* What a thread logs is in the file in the end, while the program runs. *)
Handled ==
  \A m \in Messages :
    (\E i \in 1..Len(logged) : logged[i] = m) ~>
      (returned \/ \E i \in 1..Len(m_logfile) : m_logfile[i] = m)
=============================================================================
