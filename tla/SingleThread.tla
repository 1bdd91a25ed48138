---------------------------- MODULE SingleThread ----------------------------
(***************************************************************************)
(* apps/benchmark_single_thread.cpp: the messages are generated, the first *)
(* warmup_count of them are applied to the book as a warm-up, and then all *)
(* of them, the first ones again, are applied to the same book and timed.  *)
(* The final state of that book is the baseline to which the documents     *)
(* compare every other program.                                            *)
(***************************************************************************)
EXTENDS OneThread

CONSTANT warmup_count   \* 1000 in the code

\* The ids of the warm-up do not repeat: 1000 messages, 10000 ids.
ASSUME WarmUpAssumption == warmup_count \in 0 .. IdCycle

VARIABLES phase,   \* where main is: "generate", "warm_up", "measure", "done"
          i        \* how many messages the current loop has applied

vars == <<messages_, book, phase, i>>

Init ==
    /\ messages_ = <<>>
    /\ Baseline!Init
    /\ phase = "generate"
    /\ i = 0

generate_message ==
    /\ phase = "generate"
    /\ generate
    /\ UNCHANGED <<book, phase, i>>

generated_all ==
    /\ phase = "generate"
    /\ Len(messages_) = num_messages_
    /\ phase' = "warm_up"
    /\ UNCHANGED <<messages_, book, i>>

\* Where the warm-up loop ends.
warm_up_end == Min({warmup_count, Len(messages_)})

warm_up ==
    /\ phase = "warm_up"
    /\ i < warm_up_end
    /\ book' = Baseline!on_message(book, messages_[i + 1])
    /\ i' = i + 1
    /\ UNCHANGED <<messages_, phase>>

warm_up_complete ==
    /\ phase = "warm_up"
    /\ i = warm_up_end
    /\ phase' = "measure"
    /\ i' = 0
    /\ UNCHANGED <<messages_, book>>

measure ==
    /\ phase = "measure"
    /\ i < Len(messages_)
    /\ book' = Baseline!on_message(book, messages_[i + 1])
    /\ i' = i + 1
    /\ UNCHANGED <<messages_, phase>>

measured_all ==
    /\ phase = "measure"
    /\ i = Len(messages_)
    /\ phase' = "done"
    /\ UNCHANGED <<messages_, book, i>>

Next == \/ generate_message \/ generated_all \/ warm_up \/ warm_up_complete
        \/ measure \/ measured_all
        \/ phase = "done" /\ UNCHANGED vars

Spec == Init /\ [][Next]_vars

-----------------------------------------------------------------------------
(***************************************************************************)
(* Why the warm-up can be repeated without a trace: after it, and until    *)
(* the measured loop has passed it, an id of the warm-up rests in the book *)
(* exactly if its message was an add, and no other id does.                *)
(***************************************************************************)
WarmUpLeavesItsAdds ==
    LET seen == IF phase = "warm_up" THEN i ELSE warm_up_end
    IN  phase = "warm_up" \/ (phase = "measure" /\ i < warm_up_end)
          => DOMAIN book.order_map =
               {messages_[k].order_id :
                  k \in {n \in 1 .. seen : messages_[n].type = "Add"}}

(***************************************************************************)
(* The program implements one replay of its feed: what the warm-up does to *)
(* the measured book is no more than the start of the replay, and applying *)
(* the same messages again does nothing until the loop reaches a message   *)
(* the warm-up has not seen.  So its final book is the one a program       *)
(* without warm-up builds, also in the order of the ids at a level, though *)
(* partial trades and resizes are not idempotent.                          *)
(***************************************************************************)
Applied == CASE phase = "generate" -> 0
             [] phase = "warm_up"  -> i
             [] OTHER              -> Max({i, warm_up_end})

OneReplay == INSTANCE FeedReplay
               WITH messages <- messages_, applied <- Applied,
                    InitialBook <- Baseline!EmptyBook,
                    ApplyMessage <- Baseline!on_message

ImplementsReplay == OneReplay!Spec

=============================================================================
