----------------------------- MODULE MCStartup -----------------------------
(***************************************************************************)
(* Instances of Startup for TLC.                                           *)
(***************************************************************************)
EXTENDS Startup, SequencesExt

Option(name, opt) == [name |-> name, opt |-> opt, val |-> 0]
Text(name)        == [name |-> name, opt |-> "none", val |-> 0]
Number(name, n)   == [name |-> name, opt |-> IF n < 0 THEN "?" ELSE "none", val |-> n]

\* A scaled machine: uint16_t has 4 values, uint32_t 5, size_t 256, int -8 .. 7.
SmallDefaults ==
    [d |-> "0", W |-> 2, H |-> 2, f |-> 3, J |-> TRUE, Q |-> 85, h |-> "", p |-> 1,
     c |-> "system", q |-> 4, v |-> FALSE]
SmallWords ==
    {Option("--host", "h"), Option("--width", "W"), Option("--queue-size", "q"),
     Option("--fps", "f"), Option("--jpeg-quality", "Q"), Option("--no-jpeg", "J"),
     Option("--help", "?"), Text("cam"), Text(""),
     Number("4", 4), Number("7", 7), Number("1", 1), Number("-1", -1), Number("-8", -8)}
\* Every line of up to three words, after --host cam or alone.
SmallLines ==
    LET lines == BoundedSeq(SmallWords, 3)
    IN  lines \cup {<<Option("--host", "h"), Text("cam")>> \o l : l \in lines}

ASSUME SmallWordAssumption == WordAssumption
=============================================================================
