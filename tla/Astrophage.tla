----------------------------- MODULE Astrophage -----------------------------
(***************************************************************************)
(* The log of Process 1 (astrophage/core/src/lib.rs,                       *)
(* amgos-system/src/astrophage/mod.rs): a ring of the newest records that  *)
(* the main thread writes when something happens, and the telemetry thread *)
(* every 50 ms with its readings and with what /dev/kmsg holds.            *)
(*                                                                         *)
(* A record takes its timestamp before it takes the lock.  Each poll opens *)
(* /dev/kmsg anew, and a new descriptor starts at the oldest message.      *)
(***************************************************************************)
EXTENDS Integers, Sequences, FiniteSets

CONSTANTS
  Capacity,    \* of the ring, 10000 in the code
  MaxLines,    \* messages read by one poll, 20
  Samples,     \* readings of the telemetry thread: thermal, psi-cpu, psi-memory
  MaxKernel,   \* messages of the kernel (bound)
  MaxRecords   \* records stamped (bound)

ASSUME AstrophageAssumption ==
  /\ Capacity \in Nat \ {0} /\ MaxLines \in Nat \ {0}
  /\ Samples \in Nat /\ MaxKernel \in Nat /\ MaxRecords \in Nat

VARIABLES
  entries,   \* the ring, oldest first
  stamped,   \* of each thread, the record it is about to push, or NoRecord
  sampling,  \* what the telemetry thread has left to record in this round
  clock,     \* the last timestamp taken
  kernel,    \* messages of the kernel so far
  problems,  \* those of the main thread so far (history)
  pushed     \* every record, in the order they were pushed (history)

ringVars == <<entries, pushed>>
astrophageVars == <<ringVars, stamped, sampling, clock, kernel, problems>>

Writers == {"main", "telemetry"}
Things == {"problem", "kernel", "sample"} \X Nat
Records == [what : Things, by : Writers, stamp : Nat \ {0}]
NoRecord == [what |-> <<"sample", 0>>, by |-> "telemetry", stamp |-> 0]

-----------------------------------------------------------------------------
(* record and record_metric.                                               *)

\* The timestamp is taken.
Stamp(w, what) ==
  /\ stamped[w] = NoRecord /\ clock < MaxRecords
  /\ clock' = clock + 1
  /\ stamped' = [stamped EXCEPT ![w] = [what |-> what, by |-> w, stamp |-> clock']]

\* Mutant: room is made only when the ring holds more than its capacity.
RoomLate == IF Len(entries) > Capacity THEN Tail(entries) ELSE entries

Room == IF Len(entries) >= Capacity THEN Tail(entries) ELSE entries

\* Under the lock.
push_back(w) ==
  /\ stamped[w] # NoRecord
  /\ entries' = Append(Room, stamped[w])
  /\ pushed' = Append(pushed, stamped[w])
  /\ stamped' = [stamped EXCEPT ![w] = NoRecord]
  /\ UNCHANGED <<sampling, clock, kernel, problems>>

\* get_recent
Recent(limit) ==
  SubSeq(entries, (IF Len(entries) > limit THEN Len(entries) - limit ELSE 0) + 1, Len(entries))

-----------------------------------------------------------------------------
\* Something happens that the main thread logs.
log_problem ==
  /\ problems' = problems + 1
  /\ Stamp("main", <<"problem", problems'>>)
  /\ UNCHANGED <<ringVars, sampling, kernel>>

\* The kernel writes a message to its own log.
KernelMessage ==
  /\ kernel < MaxKernel /\ kernel' = kernel + 1
  /\ UNCHANGED <<ringVars, stamped, sampling, clock, problems>>

\* A descriptor just opened: the oldest messages.
read_available ==
  [i \in 1 .. (IF kernel < MaxLines THEN kernel ELSE MaxLines) |-> <<"kernel", i>>]

\* A round of the telemetry thread: thermal reading, kernel messages, pressure.
Sampled == [i \in 1 .. Samples |-> <<"sample", 0>>]

Round ==
  /\ sampling = <<>> /\ stamped["telemetry"] = NoRecord
  /\ sampling' = read_available \o Sampled
  /\ UNCHANGED <<ringVars, stamped, clock, kernel, problems>>

RecordNext ==
  /\ sampling # <<>> /\ sampling' = Tail(sampling)
  /\ Stamp("telemetry", Head(sampling))
  /\ UNCHANGED <<ringVars, kernel, problems>>

-----------------------------------------------------------------------------
AstrophageInit ==
  /\ entries = <<>> /\ pushed = <<>>
  /\ stamped = [w \in Writers |-> NoRecord] /\ sampling = <<>>
  /\ clock = 0 /\ kernel \in 0 .. MaxKernel /\ problems = 0

AstrophageNext ==
  \/ log_problem \/ KernelMessage \/ Round \/ RecordNext
  \/ \E w \in Writers : push_back(w)

AstrophageSpec == AstrophageInit /\ [][AstrophageNext]_astrophageVars

-----------------------------------------------------------------------------
(* Properties.                                                             *)

\* The variables have their types.
AstrophageTypeOK ==
  /\ entries \in Seq(Records) /\ pushed \in Seq(Records)
  /\ stamped \in [Writers -> Records \cup {NoRecord}]
  /\ sampling \in Seq(Things)
  /\ clock \in Nat /\ kernel \in Nat /\ problems \in Nat

\* However the two threads' timestamps and pushes interleave, the ring holds
\* the last Capacity records in the order they were pushed, and a reader that
\* asks for the newest sees each thread's records in the order it made them.
NewestInOrder ==
  /\ Len(entries) = (IF Len(pushed) < Capacity THEN Len(pushed) ELSE Capacity)
  /\ \A i \in DOMAIN entries : entries[i] = pushed[Len(pushed) - Len(entries) + i]
  /\ \A limit \in 1 .. Capacity :
       LET recent == Recent(limit)
       IN  \A i, j \in DOMAIN recent :
             i < j /\ recent[i].by = recent[j].by => recent[i].stamp < recent[j].stamp

\* "The problem that happened at 2am is still in the buffer at 9am": a problem
\* once in the log stays there as long as there was no more to log than the
\* ring can hold, each kernel message counted once.
ProblemsKept ==
  kernel + Cardinality({i \in DOMAIN pushed : pushed[i].what[1] # "kernel"}) <= Capacity =>
    \A i \in DOMAIN pushed :
      pushed[i].what[1] = "problem" => \E j \in DOMAIN entries : entries[j] = pushed[i]
=============================================================================
