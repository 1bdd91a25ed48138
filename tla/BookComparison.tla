--------------------------- MODULE BookComparison ---------------------------
(***************************************************************************)
(* apps/benchmark_memory_pool.cpp: the same messages are given to the      *)
(* baseline and to the pooled book, and their final states are compared.   *)
(* Each step feeds both books one message, whatever it is.                 *)
(***************************************************************************)
EXTENDS MarketMessage, ObjectPool, FiniteSets

VARIABLES book, pbook

Baseline == INSTANCE OrderBook
Pooled == INSTANCE PooledOrderBook

Init == Baseline!Init /\ Pooled!Init

run_case(msg) ==
    /\ book' = Baseline!on_message(book, msg)
    /\ pbook' = Pooled!on_message(pbook, msg)

Next == \E msg \in Message : run_case(msg)

Spec == Init /\ [][Next]_<<book, pbook>>

-----------------------------------------------------------------------------
(***************************************************************************)
(* On a pool large enough for the feed, both books are in the same state   *)
(* after the same messages: same orders, same levels, same queue order and *)
(* same totals.                                                            *)
(***************************************************************************)
BooksAgree == Pooled!AsBook(pbook) = book

=============================================================================
