----------------------------- MODULE MCTraceFile -----------------------------
(***************************************************************************)
(* Three recordings of different length into one file, with events of every *)
(* kind that format.rs defines, in any order.                               *)
(***************************************************************************)
EXTENDS TraceFile, Codec

Reg(v) == <<v, 0>>

Timed(trace) == [k \in DOMAIN trace |-> <<k - 1, trace[k]>>]

Syscall(rax, writes)   == <<0, <<rax, writes>>>>
Rdtsc(rax, rdx)        == <<1, <<rax, rdx>>>>
Cpuid(a, b, c, d)      == <<2, <<a, b, c, d>>>>
ContextSwitch(thread)  == <<3, <<thread>>>>

\* The region at 0 comes first in gpa order and in one of the two map orders.
MCArchives ==
  <<[memory_regions |-> [g \in {0, 1} |-> IF g = 0 THEN <<0>> ELSE <<1, 2>>],
     registers |-> <<Reg(3), Reg(2)>>,
     events |-> Timed(<<Rdtsc(4, 0)>>), hash |-> 1],
    [memory_regions |-> [g \in {0} |-> <<>>], registers |-> <<>>,
     events |-> <<>>, hash |-> 2],
    [memory_regions |-> [g \in {0, 1, 2} |-> <<g>>], registers |-> <<Reg(1)>>,
     events |-> Timed(<<Syscall(1, <<<<2, <<3>>>>>>), Cpuid(1, 2, 3, 4), ContextSwitch(1)>>),
     hash |-> 3]>>

\* What TraceFile asks of the codec, for more archives than the runs save: no
\* region, one or two, buffers of up to two bytes, up to two events.
SmallArchives ==
  LET Buffers == {<<>>, <<0>>, <<1, 0>>}
      Kinds   == {Syscall(1, <<>>), Syscall(0, <<<<1, <<2>>>>>>), Rdtsc(4, 0),
                  Cpuid(1, 2, 3, 0), ContextSwitch(1)}
  IN [memory_regions : UNION {[G -> Buffers] : G \in SUBSET {0, 1}},
      registers : {<<>>, <<Reg(1)>>}, events : {Timed(t) : t \in SeqOf(Kinds, 2)},
      hash : {0}]

ASSUME SmallArchivesRoundTrip ==
  \A a \in SmallArchives : \A words \in serializations(a) :
    RoundTrip(words, a) /\ NoPartLoads(words)
=============================================================================
