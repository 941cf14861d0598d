--------------------------- MODULE Logger_proofs ---------------------------
(* The logger loses no message and misses no notification, for any threads and messages. *)
EXTENDS Logger, SequenceTheorems, TLAPS

(* Whoever holds the mutex has the queue as he found it, and it is the writer that writes. *)
HolderInv ==
  /\ \A t \in Threads : m_logger_mutex_queue = t => found[t] = m_log_messages /\ sent[t] < MaxMessages
  /\ log_fut = "writing" <=> m_logger_mutex_queue = Writer
  /\ ~m_instance => log_fut = "none"

LoggerInv == TypeOK /\ HolderInv /\ NothingLost /\ NotMissed

-----------------------------------------------------------------------------
LEMMA InitLogger == ASSUME LoggerAssumption, Init PROVE LoggerInv
<1>1. TypeOK
  <2>1. <<>> \in Seq(Messages)
    BY EmptySeq
  <2>2. 0 \in 0..MaxMessages
    BY DEF LoggerAssumption
  <2>3. /\ m_log_messages \in Seq(Messages) /\ m_logfile \in Seq(Messages) /\ logged \in Seq(Messages)
        /\ found \in [Threads -> Seq(Messages)] /\ sent \in [Threads -> 0..MaxMessages]
    BY <2>1, <2>2 DEF Init
  <2>4. QED BY <2>3 DEF Init, TypeOK
<1>2. HolderInv
  BY DEF LoggerAssumption, Init, HolderInv, Free, Writer
<1>3. NothingLost /\ NotMissed
  <2>1. <<>> \o <<>> = <<>>
    BY EmptySeq, ConcatEmptySeq
  <2>2. QED BY <2>1 DEF Init, NothingLost, NotMissed
<1>4. QED BY <1>1, <1>2, <1>3 DEF LoggerInv

LEMMA AppendAfter ==
  ASSUME NEW S, NEW a \in Seq(S), NEW b \in Seq(S), NEW e \in S
  PROVE  a \o Append(b, e) = Append(a \o b, e)
<1> DEFINE last == <<e>>
<1>1. last \in Seq(S) /\ a \o b \in Seq(S)
  BY ConcatProperties
<1>2. Append(b, e) = b \o last /\ Append(a \o b, e) = (a \o b) \o last
  BY <1>1, AppendIsConcat
<1> HIDE DEF last
<1>3. a \o (b \o last) = (a \o b) \o last
  BY <1>1, ConcatAssociative
<1>4. QED BY <1>2, <1>3

(* The message a thread pushes comes after the others. *)
LEMMA PushLogger ==
  ASSUME LoggerAssumption, LoggerInv, NEW t \in Threads, Push(t)
  PROVE  LoggerInv'
<1> DEFINE m == Message(t)
<1>1. /\ found[t] = m_log_messages /\ sent[t] < MaxMessages /\ sent[t] \in 0..MaxMessages
      /\ m_log_messages \in Seq(Messages) /\ m_logfile \in Seq(Messages) /\ logged \in Seq(Messages)
      /\ m_logfile \o m_log_messages = logged
  BY DEF Push, LoggerInv, HolderInv, TypeOK, NothingLost
<1>2. m \in Messages /\ sent[t] + 1 \in 0..MaxMessages
  BY <1>1 DEF LoggerAssumption, Message, Messages
<1> HIDE DEF m
<1>3. /\ m_log_messages' = Append(m_log_messages, m) /\ logged' = Append(logged, m)
      /\ sent' = [sent EXCEPT ![t] = @ + 1]
      /\ log_fut' = IF log_fut = "waiting" THEN "notified" ELSE log_fut
      /\ m_logger_mutex_queue = t /\ m_logger_mutex_queue' = Free
      /\ UNCHANGED <<m_instance, found, m_logfile, returned>>
  BY <1>1 DEF Push, m
<1>4. TypeOK'
  <2>1. m_log_messages' \in Seq(Messages) /\ logged' \in Seq(Messages)
    BY <1>1, <1>2, <1>3, AppendProperties
  <2>2. sent' \in [Threads -> 0..MaxMessages]
    BY <1>2, <1>3 DEF LoggerInv, TypeOK
  <2>3. QED BY <1>3, <2>1, <2>2 DEF LoggerInv, TypeOK
<1>5. HolderInv'
  <2>1. log_fut # "writing"
    BY <1>3 DEF LoggerAssumption, LoggerInv, HolderInv
  <2>2. Free # Writer /\ \A u \in Threads : Free # u
    BY DEF LoggerAssumption, Free, Writer
  <2>3. ~m_instance' => log_fut' = "none"
    BY <1>3 DEF LoggerInv, HolderInv
  <2>4. QED BY <1>3, <2>1, <2>2, <2>3 DEF HolderInv
<1>6. NothingLost'
  <2>1. m_logfile \o Append(m_log_messages, m) = Append(m_logfile \o m_log_messages, m)
    BY <1>1, <1>2, AppendAfter
  <2>2. QED BY <1>1, <1>3, <2>1 DEF NothingLost
<1>7. NotMissed'
  BY <1>3 DEF NotMissed
<1>8. QED BY <1>4, <1>5, <1>6, <1>7 DEF LoggerInv

(* The message that is written was the first of the queue. *)
LEMMA WriteLogger ==
  ASSUME LoggerAssumption, LoggerInv, Write
  PROVE  LoggerInv'
<1>1. /\ m_log_messages # <<>> /\ m_log_messages \in Seq(Messages)
      /\ m_logfile \in Seq(Messages)
      /\ m_logfile \o m_log_messages = logged
      /\ log_fut = "writing"
  BY DEF Write, LoggerInv, TypeOK, NothingLost
<1>2. Head(m_log_messages) \in Messages /\ Tail(m_log_messages) \in Seq(Messages)
  BY <1>1, HeadTailProperties
<1>3. /\ m_logfile' = Append(m_logfile, Head(m_log_messages)) /\ m_log_messages' = Tail(m_log_messages)
      /\ UNCHANGED <<m_instance, m_logger_mutex_queue, found, log_fut, returned, sent, logged>>
  BY DEF Write
<1>4. TypeOK'
  <2>1. m_logfile' \in Seq(Messages)
    BY <1>1, <1>2, <1>3, AppendProperties
  <2>2. QED BY <1>2, <1>3, <2>1 DEF LoggerInv, TypeOK
<1>5. HolderInv'
  <2>1. \A t \in Threads : m_logger_mutex_queue # t
    BY <1>1 DEF LoggerAssumption, LoggerInv, HolderInv
  <2>2. QED BY <1>3, <2>1 DEF LoggerInv, HolderInv
<1>6. NothingLost'
  <2>1. m_log_messages = <<Head(m_log_messages)>> \o Tail(m_log_messages)
    BY <1>1, <1>2
  <2>2. Append(m_logfile, Head(m_log_messages)) = m_logfile \o <<Head(m_log_messages)>>
    BY <1>1, <1>2, AppendIsConcat
  <2>3. (m_logfile \o <<Head(m_log_messages)>>) \o Tail(m_log_messages)
          = m_logfile \o (<<Head(m_log_messages)>> \o Tail(m_log_messages))
    BY <1>1, <1>2, ConcatAssociative
  <2>4. QED BY <1>1, <1>3, <2>1, <2>2, <2>3 DEF NothingLost
<1>7. NotMissed'
  BY <1>1, <1>3 DEF NotMissed
<1>8. QED BY <1>4, <1>5, <1>6, <1>7 DEF LoggerInv

(* The other steps move no message. *)
LEMMA LockLogger ==
  ASSUME LoggerAssumption, LoggerInv, NEW t \in Threads, Lock(t)
  PROVE  LoggerInv'
<1>1. /\ m_logger_mutex_queue = Free /\ m_logger_mutex_queue' = t /\ sent[t] < MaxMessages
      /\ found' = [found EXCEPT ![t] = m_log_messages]
      /\ UNCHANGED <<m_instance, m_log_messages, log_fut, m_logfile, returned, sent, logged>>
  BY DEF Lock, writer
<1>2. TypeOK'
  BY <1>1 DEF LoggerInv, TypeOK
<1>3. HolderInv'
  <2>1. log_fut # "writing" /\ t # Writer
    BY <1>1 DEF LoggerAssumption, LoggerInv, HolderInv, Free, Writer
  <2>2. found'[t] = m_log_messages'
    BY <1>1 DEF LoggerInv, TypeOK
  <2>3. \A u \in Threads : m_logger_mutex_queue' = u => u = t
    BY <1>1
  <2>4. ~m_instance' => log_fut' = "none"
    BY <1>1 DEF LoggerInv, HolderInv
  <2>5. QED BY <1>1, <2>1, <2>2, <2>3, <2>4 DEF HolderInv
<1>4. QED BY <1>1, <1>2, <1>3 DEF LoggerInv, NothingLost, NotMissed

LEMMA QuietLogger ==
  ASSUME LoggerAssumption, LoggerInv,
         UNCHANGED <<m_log_messages, found, m_logfile, sent, logged>>,
         m_instance' \in BOOLEAN, returned' \in BOOLEAN,
         log_fut' \in {"none", "opening", "looping", "writing", "waiting", "notified"},
         \/ UNCHANGED m_logger_mutex_queue /\ (log_fut' = "writing" <=> log_fut = "writing")
         \/ m_logger_mutex_queue' = Writer /\ log_fut' = "writing"
         \/ m_logger_mutex_queue' = Free /\ log_fut' # "writing",
         log_fut' = "waiting" => log_fut = "waiting" \/ m_log_messages = <<>>,
         m_instance' \/ UNCHANGED <<m_instance, log_fut>>
  PROVE  LoggerInv'
<1>1. TypeOK'
  BY DEF LoggerInv, TypeOK
<1>2. HolderInv'
  BY DEF LoggerAssumption, LoggerInv, HolderInv, Free, Writer
<1>3. QED BY <1>1, <1>2 DEF LoggerInv, NothingLost, NotMissed

LEMMA NextLogger == ASSUME LoggerAssumption, LoggerInv, [Next]_vars PROVE LoggerInv'
<1> USE DEF writer
<1>1. m_instance \in BOOLEAN /\ returned \in BOOLEAN
      /\ log_fut \in {"none", "opening", "looping", "writing", "waiting", "notified"}
  BY DEF LoggerInv, TypeOK
<1>10. log_fut # "none" => m_instance
  BY DEF LoggerInv, HolderInv
<1>2. CASE UNCHANGED vars
  BY <1>1, <1>2, QuietLogger DEF vars
<1>3. ASSUME NEW t \in Threads, getInstance(t) PROVE LoggerInv'
  <2>1. log_fut = "none"
    BY <1>3 DEF getInstance, LoggerInv, HolderInv
  <2>2. QED BY <1>1, <1>3, <2>1, QuietLogger DEF getInstance
<1>4. CASE Open
  BY <1>1, <1>4, <1>10, QuietLogger DEF Open
<1>5. CASE Loop
  BY <1>1, <1>5, <1>10, QuietLogger DEF Loop
<1>6. CASE Wait
  BY <1>1, <1>6, <1>10, QuietLogger DEF Wait
<1>7. CASE Wake
  BY <1>1, <1>7, <1>10, QuietLogger DEF Wake
<1>8. CASE Return
  BY <1>1, <1>8, <1>10, QuietLogger DEF Return
<1>9. QED
  BY <1>2, <1>3, <1>4, <1>5, <1>6, <1>7, <1>8, LockLogger, PushLogger, WriteLogger DEF Next, writelog

(* With any threads and messages, the file and then the queue have what was logged, in order. *)
THEOREM NothingLostHolds == ASSUME LoggerAssumption PROVE Spec => []NothingLost
<1>1. Init => LoggerInv
  BY InitLogger
<1>2. LoggerInv /\ [Next]_vars => LoggerInv'
  BY NextLogger
<1>3. LoggerInv => NothingLost
  BY DEF LoggerInv
<1>4. QED BY <1>1, <1>2, <1>3, PTL DEF Spec

(* With any threads and messages, the thread that writes waits only when the queue is empty. *)
THEOREM NotMissedHolds == ASSUME LoggerAssumption PROVE Spec => []NotMissed
<1>1. Init => LoggerInv
  BY InitLogger
<1>2. LoggerInv /\ [Next]_vars => LoggerInv'
  BY NextLogger
<1>3. LoggerInv => NotMissed
  BY DEF LoggerInv
<1>4. QED BY <1>1, <1>2, <1>3, PTL DEF Spec

(* The queue, the file and the threads keep their types: a thread pushes at most its messages, and
   what it pushes after finding the queue is of the queue's type. *)
THEOREM LoggerTypes == ASSUME LoggerAssumption PROVE Spec => []TypeOK
<1>1. Init => LoggerInv
  BY InitLogger
<1>2. LoggerInv /\ [Next]_vars => LoggerInv'
  BY NextLogger
<1>3. LoggerInv => TypeOK
  BY DEF LoggerInv
<1>4. QED BY <1>1, <1>2, <1>3, PTL DEF Spec
=============================================================================
