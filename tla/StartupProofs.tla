--------------------------- MODULE StartupProofs ---------------------------
(***************************************************************************)
(* Proofs about Startup: the memory of the queue, for every command line,  *)
(* every size of slots and every width of size_t that is wide enough.      *)
(***************************************************************************)
EXTENDS Startup, TLAPS

-----------------------------------------------------------------------------
(* Arithmetic.                                                             *)

\* A remainder is known by the multiple it leaves.
LEMMA ModUnique ==
    ASSUME NEW n \in Nat \ {0}, NEW a \in Int, NEW k \in Int, NEW r \in 0 .. (n - 1),
           a = k * n + r
    PROVE  a % n = r
<1> DEFINE d == a \div n
           m == a % n
<1>1. d \in Int /\ m \in 0 .. (n - 1) /\ a = d * n + m
  OBVIOUS
<1> HIDE DEF d, m
<1>2. (k - d) * n = m - r
  BY <1>1
<1>3. k - d >= 1 => (k - d) * n >= n
  BY <1>1
<1>4. k - d <= -1 => (k - d) * n <= -n
  BY <1>1
<1>5. k - d = 0
  BY <1>1, <1>2, <1>3, <1>4
<1>6. m = r
  BY <1>1, <1>2, <1>5
<1> QED BY <1>6 DEF m

\* calcStride() rounds up: a slot has room for its header and for a whole frame.
LEMMA StrideHolds ==
    /\ slot_stride_ \in Nat \ {0}
    /\ slot_stride_ >= SlotHeaderSize + MAX_FRAME_SIZE
<1> DEFINE x == SlotHeaderSize + MAX_FRAME_SIZE
           a == x + CacheLine - 1
           k == a \div CacheLine
<1>1. CacheLine \in Nat \ {0} /\ x \in Nat \ {0} /\ a \in Nat
  BY SizeAssumption
<1> HIDE DEF x, a
<1>2. /\ k \in Int /\ a % CacheLine \in 0 .. (CacheLine - 1)
      /\ a = (k * CacheLine) + (a % CacheLine)
  BY <1>1
<1>3. a = x + CacheLine - 1
  BY DEF a
<1>4. k * CacheLine >= x /\ k * CacheLine \in Int
  BY <1>1, <1>2, <1>3
<1>5. slot_stride_ = k * CacheLine
  BY DEF slot_stride_, calcStride, x, a
<1> QED BY <1>1, <1>4, <1>5 DEF x

\* The bytes that a queue of c slots asks for.
Bytes(c) == (slot_stride_ * c) % SizeT

\* If the kernel can map what is asked for, it is what c slots need.
Honest(c) == c \in Nat /\ (Bytes(c) <= MapLimit => Bytes(c) = slot_stride_ * c)

\* A size that does not wrap around is mapped as it is.
LEMMA SmallHonest ==
    ASSUME NEW c \in Nat, c * slot_stride_ < SizeT
    PROVE  Honest(c)
<1> DEFINE s == slot_stride_
<1>1. s \in Nat \ {0} /\ SizeT \in Nat \ {0}
  BY StrideHolds, SizeAssumption
<1>2. s * c \in 0 .. (SizeT - 1) /\ s * c = 0 * SizeT + s * c
  <2> HIDE DEF s
  <2>1. c * s = s * c /\ s * c \in Nat
    BY <1>1
  <2>2. c * s < SizeT
    BY DEF s
  <2> QED BY <1>1, <2>1, <2>2
<1>3. Bytes(c) = s * c
  BY <1>1, <1>2, ModUnique DEF Bytes
<1> QED BY <1>3 DEF Honest

\* static_cast<size_t>(atoi(...)) of any number, negative ones included.
LEMMA ArgumentHonest ==
    ASSUME NEW v \in Int, v * slot_stride_ < SizeT,
           -(v * slot_stride_) < SizeT - MapLimit
    PROVE  Honest(v % SizeT)
<1> DEFINE s == slot_stride_
           N == SizeT
           w == v * s
<1>1. /\ s \in Nat \ {0} /\ N \in Nat \ {0} /\ MapLimit \in 0 .. (N - 1)
      /\ w \in Int /\ w < N /\ -w < N - MapLimit
  BY StrideHolds, SizeAssumption
<1>2. CASE v >= 0
  <2>1. v < N
    <3>1. v <= v * s
      BY <1>1, <1>2
    <3> QED BY <1>1, <3>1
  <2>2. v \in 0 .. (N - 1) /\ v = 0 * N + v
    BY <1>1, <1>2, <2>1
  <2>3. v % N = v
    BY <1>1, <2>2, ModUnique
  <2> QED BY <1>2, <2>3, SmallHonest
<1>3. CASE v < 0
  <2>1. v >= w
    <3>1. v * s <= v
      BY <1>1, <1>3
    <3> QED BY <3>1
  <2>2. v + N \in 0 .. (N - 1) /\ v = (-1) * N + (v + N)
    BY <1>1, <1>3, <2>1
  <2>3. v % N = v + N
    BY <1>1, <2>2, ModUnique
  <2>4. w < 0
    <3>1. v * s <= v
      BY <1>1, <1>3
    <3> QED BY <1>1, <1>3, <3>1
  <2>5. w + N \in 0 .. (N - 1) /\ w + N > MapLimit
    BY <1>1, <2>4
  <2>6. s * (v + N) = (s - 1) * N + (w + N) /\ s * (v + N) \in Int
    BY <1>1
  <2>7. (s * (v + N)) % N = w + N
    <3> DEFINE a == s * (v + N)
               k == s - 1
               r == w + N
    <3>1. N \in Nat \ {0} /\ a \in Int /\ k \in Int /\ r \in 0 .. (N - 1) /\ a = k * N + r
      BY <1>1, <2>5, <2>6
    <3> HIDE DEF a, k, r, N
    <3>2. a % N = r
      BY <3>1, ModUnique
    <3> QED BY <3>2 DEF a, r
  <2>8. Bytes(v + N) > MapLimit
    BY <2>5, <2>7 DEF Bytes
  <2>9. Bytes(v + N) \in Int
    BY <2>5, <2>7 DEF Bytes
  <2> QED BY <1>1, <2>2, <2>3, <2>8, <2>9 DEF Honest
<1> QED BY <1>2, <1>3

-----------------------------------------------------------------------------
(* The invariant.                                                          *)

ParserInv ==
    /\ argv \in CommandLines /\ optind \in Nat \ {0}
    /\ config = [o \in Letters |-> config[o]]
    /\ Honest(config["q"])

\* Who owns what at each place of main().
MemoryInv ==
    /\ start_pc \in {"construct", "malloc", "valid"} => capacity_ >= 2
    /\ start_pc \in {"malloc", "valid"} => mapped = Total /\ Total <= MapLimit
    /\ start_pc = "valid" => flags = capacity_
    /\ start_pc \notin {"malloc", "valid"} => mapped = 0
    /\ start_pc # "valid" => flags = 0

IInv == ParserInv /\ MemoryInv

\* The defaults of struct Config are honest.
LEMMA InitIInv == WordAssumption /\ StartInit => IInv
<1> SUFFICES ASSUME WordAssumption, StartInit PROVE IInv
  OBVIOUS
<1>1. Honest(DefaultConfig["q"])
  BY SmallHonest, SizeAssumption DEF WordAssumption
<1> QED BY <1>1, SizeAssumption DEF StartInit, IInv, ParserInv, MemoryInv

\* A word of the command line.
LEMMA ElementIn == ASSUME NEW S, NEW s \in Seq(S), NEW i \in 1 .. Len(s) PROVE s[i] \in S
OBVIOUS

\* An option leaves the number of slots alone or sets it from an argument.
LEMMA OptionHonest ==
    ASSUME WordAssumption, ParserInv, OptionWithArgument
    PROVE  ParserInv'
<1> DEFINE opt   == argv[optind].opt
           word  == argv[optind + 1]
           value == Convert(opt, word)
<1>1. /\ opt \in TakesArgument /\ optind < Len(argv)
      /\ config' = [config EXCEPT ![opt] = value]
      /\ optind' = optind + 2 /\ argv' = argv
  BY DEF OptionWithArgument
<1>2. argv \in Seq([name : STRING, opt : STRING, val : Int]) /\ Len(argv) \in Nat
  BY SizeAssumption DEF ParserInv
<1>3. optind + 1 \in 1 .. Len(argv)
  BY <1>1, <1>2 DEF ParserInv
<1>4. /\ word.val \in Int /\ word.val * slot_stride_ < SizeT
      /\ -(word.val * slot_stride_) < SizeT - MapLimit
  <2>1. word \in [name : STRING, opt : STRING, val : Int]
    BY <1>2, <1>3, ElementIn
  <2>2. argv \in CommandLines
    BY DEF ParserInv
  <2>3. \A i \in 1 .. Len(argv) :
           /\ argv[i].val * slot_stride_ < SizeT
           /\ -(argv[i].val * slot_stride_) < SizeT - MapLimit
    BY <2>2, Zenon DEF WordAssumption
  <2> QED BY <1>3, <2>1, <2>3
<1>5. Honest(word.val % SizeT)
  BY <1>4, ArgumentHonest
<1>6. opt = "q" => value = word.val % SizeT
  BY DEF Convert
<1>7. config' = [o \in Letters |-> config'[o]]
  BY <1>1 DEF ParserInv
<1>8. config'["q"] = IF opt = "q" THEN value ELSE config["q"]
  <2> HIDE DEF opt, value
  <2>1. "q" \in Letters
    BY DEF Letters, TakesArgument
  <2> QED BY <1>1, <2>1 DEF ParserInv
<1>9. Honest(config["q"])
  BY DEF ParserInv
<1>10. Honest(config'["q"])
  BY <1>5, <1>6, <1>8, <1>9
<1>11. (Honest(config["q"]))'
  BY <1>10 DEF Honest, Bytes, slot_stride_, calcStride
<1>12. optind' \in Nat \ {0}
  BY <1>1 DEF ParserInv
<1> QED BY <1>1, <1>7, <1>11, <1>12 DEF ParserInv

\* Every step of parseArgs(), of the constructor and of the destructor keeps IInv.
LEMMA NextIInv == WordAssumption /\ IInv /\ [StartNext]_startVars => IInv'
<1> SUFFICES ASSUME WordAssumption, IInv, [StartNext]_startVars PROVE IInv'
  OBVIOUS
<1> USE DEF IInv
<1>h. ASSUME config' = config PROVE (Honest(config["q"]))' = Honest(config["q"])
  BY <1>h DEF Honest, Bytes, slot_stride_, calcStride
<1>t. ASSUME config' = config PROVE Total' = Total /\ capacity_' = capacity_
  BY <1>t DEF Total, capacity_, slot_stride_, calcStride
<1>1. CASE SkipWord \/ Usage
  <2>1. config' = config /\ argv' = argv /\ optind' \in Nat \ {0}
    BY <1>1 DEF SkipWord, Usage, ParserInv
  <2>2. ParserInv'
    BY <1>h, <2>1 DEF ParserInv
  <2>3. MemoryInv'
    BY <1>1 DEF SkipWord, Usage, InOptions, MemoryInv
  <2> QED BY <2>2, <2>3
<1>2. CASE Switch
  <2>1. /\ argv[optind].opt \in Switches /\ argv' = argv
        /\ config' = [config EXCEPT ![argv[optind].opt] = argv[optind].opt = "v"]
        /\ optind' \in Nat \ {0}
    BY <1>2 DEF Switch, ParserInv
  <2>2. config' = [o \in Letters |-> config'[o]] /\ config'["q"] = config["q"]
    BY <2>1 DEF ParserInv, Switches, Letters, TakesArgument
  <2>3. (Honest(config["q"]))'
    BY <2>2 DEF ParserInv, Honest, Bytes, slot_stride_, calcStride
  <2>4. ParserInv'
    BY <2>1, <2>2, <2>3 DEF ParserInv
  <2>5. MemoryInv'
    BY <1>2 DEF Switch, InOptions, MemoryInv
  <2> QED BY <2>4, <2>5
<1>3. CASE OptionWithArgument
  <2>1. ParserInv'
    BY <1>3, OptionHonest
  <2>2. start_pc = "options" /\ start_pc' \in {"error", "options"} /\ UNCHANGED <<mapped, flags>>
    BY <1>3 DEF OptionWithArgument, InOptions
  <2>3. MemoryInv'
    BY <2>2 DEF MemoryInv
  <2> QED BY <2>1, <2>3
<1>4. CASE EndOfOptions
  <2>1. ParserInv'
    BY <1>4, <1>h DEF EndOfOptions, ParserInv
  <2>2. MemoryInv'
    BY <1>4, <1>t DEF EndOfOptions, ChecksPass, MemoryInv, capacity_
  <2> QED BY <2>1, <2>2
<1>5. CASE MapSlots \/ MapSlotsFails \/ AllocateFlags \/ AllocateFlagsFails \/ DeleteQueue
  <2>1. config' = config /\ UNCHANGED <<argv, optind>>
    BY <1>5 DEF MapSlots, MapSlotsFails, AllocateFlags, AllocateFlagsFails, DeleteQueue
  <2>2. ParserInv'
    BY <1>h, <2>1 DEF ParserInv
  <2>3. Total' = Total /\ capacity_' = capacity_
    BY <1>t, <2>1
  <2>4. Total \in Int
    BY StrideHolds, SizeAssumption DEF Total, capacity_, ParserInv, Honest
  <2>5. CASE MapSlots
    BY <2>2, <2>3, <2>5, SizeAssumption DEF MapSlots, MemoryInv
  <2>6. CASE MapSlotsFails
    BY <2>2, <2>3, <2>6 DEF MapSlotsFails, MemoryInv
  <2>7. CASE AllocateFlags
    BY <2>2, <2>3, <2>7 DEF AllocateFlags, MemoryInv
  <2>8. CASE AllocateFlagsFails
    BY <2>2, <2>3, <2>8 DEF AllocateFlagsFails, MemoryInv
  <2>9. CASE DeleteQueue
    <3>1. start_pc' = "exit" /\ start_pc \in {"invalid", "valid"}
      BY <2>9 DEF DeleteQueue
    <3>2. CASE start_pc = "invalid"
      <4>1. mapped' = 0 /\ flags' = 0
        BY <2>9, <3>2 DEF DeleteQueue, MemoryInv
      <4> QED BY <2>2, <3>1, <4>1 DEF MemoryInv
    <3>3. CASE start_pc = "valid"
      <4>1. mapped = Total /\ flags = capacity_ /\ capacity_ >= 2
        BY <3>3 DEF MemoryInv
      <4>2. Total # 0
        <5>1. Total = slot_stride_ * capacity_
          BY <3>3, <4>1 DEF MemoryInv, ParserInv, Honest, Bytes, Total, capacity_
        <5>2. capacity_ \in Nat
          BY DEF ParserInv, Honest, capacity_
        <5> QED BY <4>1, <5>1, <5>2, StrideHolds
      <4>3. mapped' = Total - Total /\ flags' = 0
        BY <2>9, <4>1, <4>2 DEF DeleteQueue
      <4>4. mapped' = 0
        BY <2>4, <4>3
      <4> QED BY <2>2, <3>1, <4>3, <4>4 DEF MemoryInv
    <3> QED BY <3>1, <3>2, <3>3
  <2> QED BY <1>5, <2>2, <2>5, <2>6, <2>7, <2>8, <2>9
<1>6. CASE UNCHANGED startVars
  <2>1. config' = config /\ UNCHANGED <<argv, optind, start_pc, mapped, flags>>
    BY <1>6 DEF startVars
  <2>2. ParserInv'
    BY <1>h, <2>1 DEF ParserInv
  <2>3. MemoryInv'
    BY <1>t, <2>1 DEF MemoryInv
  <2> QED BY <2>2, <2>3
<1> QED
  BY <1>1, <1>2, <1>3, <1>4, <1>5, <1>6 DEF StartNext, StartDone

-----------------------------------------------------------------------------
\* parseArgs() and the constructor keep IInv, if size_t is wide enough.
THEOREM StartupInvariant == ASSUME WordAssumption PROVE StartSpec => []IInv
<1>1. StartInit => IInv
  BY InitIInv
<1>2. IInv /\ [StartNext]_startVars => IInv'
  BY NextIInv
<1> QED BY <1>1, <1>2, PTL DEF StartSpec

\* Every slot of a valid queue is inside its mapping, for every number that --queue-size
\* may give, negative ones included, and every size of frames.
THEOREM QueueMemory == ASSUME WordAssumption PROVE StartSpec => []SlotsMapped
<1>1. IInv => SlotsMapped
  <2> SUFFICES ASSUME IInv, start_pc = "valid"
               PROVE  /\ (capacity_ - 1) * slot_stride_ + SlotHeaderSize + MAX_FRAME_SIZE <= mapped
                      /\ flags = capacity_
    BY DEF SlotsMapped
  <2>1. mapped = Total /\ Total <= MapLimit /\ flags = capacity_
    BY DEF IInv, MemoryInv
  <2>2. Total = slot_stride_ * capacity_ /\ capacity_ \in Nat
    BY <2>1 DEF IInv, ParserInv, Honest, Bytes, Total, capacity_
  <2> DEFINE s == slot_stride_
             c == capacity_
  <2>3. s \in Nat /\ s >= SlotHeaderSize + MAX_FRAME_SIZE
    BY StrideHolds
  <2>4. (c - 1) * s = s * c - s
    <3>1. s \in Int /\ c \in Int
      BY <2>2, <2>3
    <3> HIDE DEF s, c
    <3> QED BY <3>1
  <2>5. SlotHeaderSize \in Nat /\ MAX_FRAME_SIZE \in Nat
    BY SizeAssumption
  <2>6. s * c \in Int
    <3> HIDE DEF s, c
    <3>1. c \in Nat
      BY <2>2 DEF c
    <3> QED BY <2>3, <3>1
  <2>7. (c - 1) * s + SlotHeaderSize + MAX_FRAME_SIZE <= s * c
    <3> DEFINE x == s * c
               y == (c - 1) * s
    <3>1. y = x - s /\ x \in Int
      BY <2>4, <2>6
    <3> HIDE DEF x, y, s
    <3>2. y + SlotHeaderSize + MAX_FRAME_SIZE <= x
      BY <2>2, <2>3, <2>5, <3>1
    <3> QED BY <3>2 DEF x, y, s
  <2> QED BY <2>1, <2>2, <2>7
<1> QED BY StartupInvariant, <1>1, PTL

\* Constructor and destructor of the queue give back what they took on every path.
THEOREM NothingKept == ASSUME WordAssumption PROVE StartSpec => []MappingReleased
<1>1. IInv => MappingReleased
  BY DEF IInv, MemoryInv, MappingReleased
<1> QED BY StartupInvariant, <1>1, PTL
=============================================================================
