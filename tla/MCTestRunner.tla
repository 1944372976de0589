---------------------------- MODULE MCTestRunner ----------------------------
(***************************************************************************)
(* Instance of TestRunner for TLC: a suite, an example and a skipped suite.*)
(***************************************************************************)
EXTENDS TestRunner

ThreeJobs == << [suite |-> TRUE,  skip |-> FALSE],
                [suite |-> FALSE, skip |-> FALSE],
                [suite |-> TRUE,  skip |-> TRUE] >>
=============================================================================
