---------------------------- MODULE MC_CorpusStore ----------------------------
(* Two cases, in one shard, in a shorter corpus, and with another seed. *)
EXTENDS CorpusStore

MCCasesOf == [both |-> <<"case0", "case1">>, first |-> <<"case0">>,
              other |-> <<"case0">>]
MCSeedOf == [both |-> 42, first |-> 42, other |-> 7]
=============================================================================
