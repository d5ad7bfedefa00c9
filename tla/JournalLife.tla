------------------------------ MODULE JournalLife ------------------------------
(***************************************************************************)
(* What a daily journal promises its two readers, without handlers, locks  *)
(* or a database: the trainee edits it until it is handed in, staff judge  *)
(* exactly what was handed in, once, and a verdict of "reviewed" is the    *)
(* last word.  Journal implements this.                                    *)
(***************************************************************************)
EXTENDS Sequences

CONSTANTS Texts, LongTexts, Images, NoText

VARIABLES state, text, pictures, verdicts

lifeVars == <<state, text, pictures, verdicts>>

Open == state \in {"draft", "needs_revision"}

Edit == Open /\ text' \in Texts /\ UNCHANGED <<state, pictures, verdicts>>

Illustrate ==
  /\ Open
  /\ \E i \in Images : pictures' \in {pictures \cup {i}, pictures \ {i}}
  /\ UNCHANGED <<state, text, verdicts>>

HandIn ==
  /\ Open
  /\ text' \in LongTexts /\ state' = "submitted"
  /\ UNCHANGED <<pictures, verdicts>>

Judge ==
  /\ state = "submitted"
  /\ \E d \in {"reviewed", "needs_revision"} :
       state' = d /\ verdicts' = Append(verdicts, d)
  /\ UNCHANGED <<text, pictures>>

LifeInit == state = "draft" /\ text = NoText /\ pictures = {} /\ verdicts = <<>>
LifeNext == Edit \/ Illustrate \/ HandIn \/ Judge
Life == LifeInit /\ [][LifeNext]_lifeVars
================================================================================
