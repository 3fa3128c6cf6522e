------------------------- MODULE MCFinetuningStore -------------------------
(* Five lines of three lengths, one of them too long for the buffer. *)
EXTENDS FinetuningStore

CONSTANTS s1, s2, s3, s4, s5

MCCorpus == {s1, s2, s3, s4, s5}
MCCorpusLen == [s \in MCCorpus |->
                  CASE s \in {s1, s2} -> 1
                    [] s = s3         -> 2
                    [] s = s4         -> 3
                    [] s = s5         -> 4]
=============================================================================
