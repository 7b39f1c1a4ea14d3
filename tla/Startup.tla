------------------------------ MODULE Startup ------------------------------
(***************************************************************************)
(* The client's command line and the memory of its queue: parseArgs() of   *)
(* src/main.cpp, the constructor and the destructor of                     *)
(* src/ring_queue.cpp.  Streamer takes over where main() has a queue.      *)
(*                                                                         *)
(* A word of the command line has its spelling, the option getopt_long()   *)
(* takes it for ("none" if it is not an option) and what atoi() makes of   *)
(* it.  The widths of the integer types are constants.                     *)
(***************************************************************************)
EXTENDS Integers, Sequences

CONSTANTS
    CommandLines,      \* sequences of words
    Uint16, Uint32, SizeT,   \* numbers of values of uint16_t, uint32_t, size_t
    MapLimit,          \* what the kernel can map, and malloc() can allocate
    SlotHeaderSize, MAX_FRAME_SIZE, CacheLine,   \* bytes
    DefaultConfig      \* one value for every option letter

TakesArgument == {"d", "W", "H", "f", "Q", "h", "p", "c", "q"}
Switches      == {"J", "v"}
Letters       == TakesArgument \cup Switches

ASSUME SizeAssumption ==
    /\ {Uint16, Uint32, SizeT, SlotHeaderSize, MAX_FRAME_SIZE, CacheLine} \subseteq Nat \ {0}
    /\ MapLimit \in 0 .. (SizeT - 1)
    /\ CommandLines \subseteq Seq([name : STRING, opt : STRING, val : Int])
    /\ DefaultConfig = [o \in Letters |-> DefaultConfig[o]]
    /\ DefaultConfig["q"] \in Nat

VARIABLES
    argv, optind,      \* the command line, and where getopt_long() is in it
    config,            \* struct Config, by option letter
    start_pc,          \* where main() is
    mapped,            \* bytes of the queue's mapping, 0: mmap_base_ is null
    flags              \* length of slot_in_use_, 0: null

startVars == <<argv, optind, config, start_pc, mapped, flags>>

-----------------------------------------------------------------------------
(* parseArgs()                                                             *)

\* The options that keep the word, and the ones that convert it with atoi().
Convert(opt, word) ==
    CASE opt \in {"d", "h", "c"} -> word.name
      [] opt \in {"W", "H", "p"} -> word.val % Uint16
      [] opt = "f"               -> word.val % Uint32
      [] opt = "q"               -> word.val % SizeT
      [] opt = "Q"               -> word.val

StartInit ==
    /\ argv \in CommandLines /\ optind = 1
    /\ config = DefaultConfig
    /\ start_pc = "options"
    /\ mapped = 0 /\ flags = 0

InOptions == start_pc = "options" /\ optind <= Len(argv)

\* getopt_long() moves words that are no options behind the others.
SkipWord ==
    /\ InOptions
    /\ argv[optind].opt = "none"
    /\ optind' = optind + 1
    /\ UNCHANGED <<argv, config, start_pc, mapped, flags>>

\* --no-jpeg clears use_jpeg, --verbose sets verbose.
Switch ==
    /\ InOptions
    /\ argv[optind].opt \in Switches
    /\ config' = [config EXCEPT ![argv[optind].opt] = argv[optind].opt = "v"]
    /\ optind' = optind + 1
    /\ UNCHANGED <<argv, start_pc, mapped, flags>>

\* The next word is the argument, whatever it looks like.
OptionWithArgument ==
    /\ InOptions
    /\ argv[optind].opt \in TakesArgument
    /\ optind < Len(argv)
    /\ LET opt   == argv[optind].opt
           value == Convert(opt, argv[optind + 1])
       IN  /\ config' = [config EXCEPT ![opt] = value]
           /\ start_pc' = IF opt = "Q" /\ value \notin 1 .. 100 THEN "error" ELSE "options"
    /\ optind' = optind + 2
    /\ UNCHANGED <<argv, mapped, flags>>

\* --help, an unknown option or an option without its argument: printUsage().
Usage ==
    /\ InOptions
    /\ \/ argv[optind].opt = "?"
       \/ argv[optind].opt \in TakesArgument /\ optind = Len(argv)
    /\ start_pc' = "usage"
    /\ UNCHANGED <<argv, optind, config, mapped, flags>>

ChecksPass ==
    /\ config["W"] # 0 /\ config["H"] # 0
    /\ config["f"] # 0
    /\ config["q"] >= 2

EndOfOptions ==
    /\ start_pc = "options"
    /\ optind > Len(argv)
    /\ start_pc' = IF config["h"] = "" THEN "usage"
                   ELSE IF ChecksPass THEN "construct" ELSE "error"
    /\ UNCHANGED <<argv, optind, config, mapped, flags>>

-----------------------------------------------------------------------------
(* RingQueue::RingQueue(config.queue_size, MAX_FRAME_SIZE) and the         *)
(* destructor.                                                             *)

StrideOfData(n) == ((n + CacheLine - 1) \div CacheLine) * CacheLine   \* faulty: no header

calcStride(n) == ((SlotHeaderSize + n + CacheLine - 1) \div CacheLine) * CacheLine

slot_stride_ == calcStride(MAX_FRAME_SIZE)
capacity_    == config["q"]
Total        == (slot_stride_ * capacity_) % SizeT    \* size_t arithmetic

\* mmap() refuses a length of 0.
MapSlots ==
    /\ start_pc = "construct"
    /\ Total \in 1 .. MapLimit
    /\ mapped' = Total
    /\ start_pc' = "malloc"
    /\ UNCHANGED <<argv, optind, config, flags>>

MapSlotsFails ==
    /\ start_pc = "construct"
    /\ start_pc' = "invalid"
    /\ UNCHANGED <<argv, optind, config, mapped, flags>>

AllocateFlags ==
    /\ start_pc = "malloc"
    /\ capacity_ <= MapLimit
    /\ flags' = capacity_
    /\ start_pc' = "valid"
    /\ UNCHANGED <<argv, optind, config, mapped>>

AllocateFlagsKeepsMapping ==   \* faulty: no munmap() on this path
    /\ start_pc = "malloc"
    /\ start_pc' = "invalid"
    /\ UNCHANGED <<argv, optind, config, mapped, flags>>

AllocateFlagsFails ==
    /\ start_pc = "malloc"
    /\ mapped' = 0
    /\ start_pc' = "invalid"
    /\ UNCHANGED <<argv, optind, config, flags>>

\* delete queue: at once if it is not valid, else when the client has streamed.
\* The destructor returns at its top when there is no mapping.
DeleteQueue ==
    /\ start_pc \in {"invalid", "valid"}
    /\ IF mapped = 0
       THEN UNCHANGED <<mapped, flags>>
       ELSE flags' = 0 /\ mapped' = mapped - Total
    /\ start_pc' = "exit"
    /\ UNCHANGED <<argv, optind, config>>

StartDone == start_pc \in {"usage", "error", "exit"} /\ UNCHANGED startVars

StartNext ==
    \/ SkipWord \/ Switch \/ OptionWithArgument \/ Usage \/ EndOfOptions
    \/ MapSlots \/ MapSlotsFails \/ AllocateFlags \/ AllocateFlagsFails
    \/ DeleteQueue \/ StartDone

StartSpec == StartInit /\ [][StartNext]_startVars

\* What 64 bits of size_t give, with 32 bits of int: the size of the queue computed
\* from a number of an argument wraps around only if that is negative, and then it
\* is more than can be mapped.
WordAssumption ==
    /\ DefaultConfig["q"] * slot_stride_ < SizeT
    /\ \A line \in CommandLines : \A i \in 1 .. Len(line) :
          /\ line[i].val * slot_stride_ < SizeT
          /\ -(line[i].val * slot_stride_) < SizeT - MapLimit

-----------------------------------------------------------------------------
(* Properties.                                                             *)

\* Every slot of a valid queue lies whole inside the mapping, and has its flag, in
\* true arithmetic: the wrap-around of size_t, of a negative --queue-size too, never
\* yields a queue that is larger than its memory.  (WordAssumption is what a 64-bit
\* size_t gives; with 32 bits --queue-size 1024 would break this.)
SlotsMapped ==
    start_pc = "valid" =>
        /\ (capacity_ - 1) * slot_stride_ + SlotHeaderSize + MAX_FRAME_SIZE <= mapped
        /\ flags = capacity_

\* What the constructor of the queue has taken it or the destructor gives back.
MappingReleased == start_pc \in {"invalid", "exit"} => mapped = 0 /\ flags = 0
=============================================================================
