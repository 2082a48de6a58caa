--------------------------- MODULE MCConfiguration ---------------------------
(* Instances of Configuration for TLC: documents with fields left out, and *)
(* with values that fit a short, that only fit a USHORT, and that fit      *)
(* neither, or that fit no int; one with a quote in its text.              *)
EXTENDS Configuration

Object(pool, p, fetch, predict, q) ==
    [poolSize |-> pool, port |-> p, metricFetchInterval |-> fetch,
     predictionInterval |-> predict, quoted |-> q]

\* Small enough for TLC to list the numbers of a field, and more than the default interval.
MCIntHalf == 400000

MCObjects ==
    {Object(Absent, Absent, Absent, Absent, FALSE),
     Object(0, 9000, 5000, 0, FALSE),
     Object(2, 40000, 40000, Absent, FALSE),
     Object(65536, 65536, Absent, MCIntHalf + 1, FALSE),
     Object(2, Absent, 2000, 1000, TRUE)}

MCEnvPorts == {NoEnv, 9100, 50000}
=============================================================================
