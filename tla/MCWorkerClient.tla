--------------------------- MODULE MCWorkerClient ---------------------------
(* An instance of WorkerClient for TLC.                                    *)
EXTENDS WorkerClient

\* A question; the question, one of its two answers and another question.
Talk == {<<1>>, <<1, 1, 2>>}
=============================================================================
