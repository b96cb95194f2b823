-------------------------- MODULE FairPages_proofs --------------------------
(***************************************************************************)
(* What the pages of a round keep true for any number of rounds and of     *)
(* replays at a time: their types, and that a picture is of one replay,    *)
(* complete when none is under way.  A replay whose scene is covered goes  *)
(* on painting, so that the invariant is about those past their fetch.     *)
(* And that what the card says a round pays is what the server paid: the   *)
(* search and the walk stop at the same row of the table, and rounding and *)
(* cutting off differ by half a unit of an odd bet.                        *)
(***************************************************************************)
EXTENDS FairPages, TLAPS

PCs == {"idle", "check", "load", "derive", "cast", "path"}

\* The types, with the records spelled out.
FairTypes ==
    /\ page \in {"verify", "replay"}
    /\ settled \in Settlements
    /\ form \in Forms /\ address \in Forms /\ copying \in Forms
    /\ runs \in [Slots -> [pc : PCs, form : Forms]]
    /\ card \in [kind : {"none", "result", "refused"}, form : Forms, ok : BOOLEAN,
                 prize : Prizes]
    /\ canvas \in [scene : Forms, fish : Forms, line : Lines]
    /\ edits \in 0..MaxEdits

Painting(s) == runs[s].pc \in {"cast", "path"}

\* A check has its seeds, a replay its seeds or the round it loads.
Ready(run) ==
    /\ run.pc = "check" => run.form.seed # NoRound
    /\ run.pc = "load" => run.form.hash # NoRound
    /\ run.pc \in {"derive", "cast", "path"} =>
          run.form.hash # NoRound \/ run.form.seed # NoRound
RunsReady == \A s \in Slots : Ready(runs[s])

\* /verify replays nothing.
PageOfRuns == page = "verify" => \A s \in Slots : runs[s].pc \in {"idle", "check"}

\* What the canvas shows is of one replay, and blank or its end while none paints.
CanvasIsOne ==
    /\ canvas.fish \in {Empty, canvas.scene}
    /\ canvas.line # 0 => canvas.fish = canvas.scene /\ canvas.line = Line(canvas.scene)
    /\ (\A s \in Slots : ~Painting(s)) =>
          \/ canvas.scene = Empty
          \/ canvas.fish = canvas.scene /\ canvas.line = Line(canvas.scene)

FInv == FairTypes /\ RunsReady /\ PageOfRuns /\ CanvasIsOne

-----------------------------------------------------------------------------

\* Every value of the fields and of the prizes that a step can write.
LEMMA Values ==
    ASSUME PagesAssumption, FairTypes
    PROVE  /\ NoRound \in Refs /\ Rounds \subseteq Refs
           /\ 0 \in Amounts /\ 10 * Scale \in Amounts /\ 0 \in Prizes /\ 0 \in Lines
           /\ Empty \in Forms /\ Idle \in [pc : PCs, form : Forms]
           /\ \A r \in Rounds : /\ Written(settled[r].stake) \subseteq Amounts
                                /\ settled[r].stake * Scale \in Amounts
                                /\ BetAmountFromReplay(settled[r].stake) \in Amounts
<1>1. NoRound \in Refs /\ Rounds \subseteq Refs
  BY DEF Refs
<1>2. 0 \in Amounts /\ 10 * Scale \in Amounts /\ 0 \in Prizes /\ 0 \in Lines
  BY DEF Amounts, Prizes, Lines
<1>3. Empty \in Forms /\ Idle \in [pc : PCs, form : Forms]
  BY <1>1, <1>2 DEF Empty, Forms, Idle, PCs
<1>4. ASSUME NEW r \in Rounds
      PROVE  /\ Written(settled[r].stake) \subseteq Amounts
             /\ settled[r].stake * Scale \in Amounts
             /\ BetAmountFromReplay(settled[r].stake) \in Amounts
  <2>1. settled[r].stake \in Stakes
    BY DEF FairTypes, Stakes
  <2>2. Written(settled[r].stake) \subseteq Amounts
        /\ BetAmountFromReplay(settled[r].stake) \in Amounts
    BY <2>1 DEF Amounts
  <2> QED
    BY <2>2 DEF Written
<1> QED
  BY <1>1, <1>2, <1>3, <1>4

\* A prize that a page computes from fields of its own.
LEMMA PageOutcome ==
    ASSUME FairTypes, NEW f \in Forms, f.seed # NoRound
    PROVE  ComputeOutcome(settled[f.seed].pick, f.bet).prize \in Prizes
<1>1. settled[f.seed].pick \in Picks
  BY DEF FairTypes, Forms, Refs, Picks
<1>2. f.bet \in Amounts
  BY DEF Forms
<1> QED
  BY <1>1, <1>2 DEF Prizes

-----------------------------------------------------------------------------

\* The pages as they are opened.
LEMMA FairInit ==
    ASSUME PagesAssumption, ScaleAssumption, Init
    PROVE  FInv
<1>1. FairTypes
  <2>1. NoRound \in Refs /\ 0 \in Amounts /\ 10 * Scale \in Amounts /\ 0 \in Prizes /\ 0 \in Lines
    BY DEF Refs, Amounts, Prizes, Lines
  <2>2. Empty \in Forms /\ [Empty EXCEPT !.bet = 10 * Scale] \in Forms
    BY <2>1 DEF Empty, Forms
  <2>3. Idle \in [pc : PCs, form : Forms]
    BY <2>2 DEF Idle, PCs
  <2>4. card \in [kind : {"none", "result", "refused"}, form : Forms, ok : BOOLEAN,
                  prize : Prizes]
    BY <2>1, <2>2 DEF Init, NoCard
  <2>5. canvas \in [scene : Forms, fish : Forms, line : Lines]
    BY <2>1, <2>2 DEF Init, Blank
  <2>6. form \in Forms /\ address \in Forms /\ copying \in Forms
    BY <2>2 DEF Init
  <2>7. edits \in 0..MaxEdits
    BY DEF Init, PagesAssumption
  <2> QED
    BY <2>3, <2>4, <2>5, <2>6, <2>7 DEF FairTypes, Init
<1>2. PageOfRuns
  BY DEF Init, PageOfRuns, Painting, Idle
<1>3. CanvasIsOne
  BY DEF Init, CanvasIsOne, Blank
<1>4. RunsReady
  BY DEF Init, RunsReady, Ready, Idle
<1> QED
  BY <1>1, <1>2, <1>3, <1>4 DEF FInv

\* What the steps between two paints do: the canvas stays, and a run begins,
\* ends or waits before its cast.
LEMMA QuietStep ==
    ASSUME FInv, FairTypes', RunsReady', UNCHANGED <<page, settled, canvas>>,
           \A s \in Slots : Painting(s)' <=> Painting(s),
           PageOfRuns'
    PROVE  FInv'
<1>1. CanvasIsOne'
  BY DEF FInv, CanvasIsOne, Line
<1> QED
  BY <1>1 DEF FInv

\* A replay that paints its scene.
LEMMA PaintStep ==
    ASSUME FInv, FairTypes', RunsReady', UNCHANGED <<page, settled>>, NEW s \in Slots,
           Painting(s)', page # "verify",
           canvas'.fish \in {Empty, canvas'.scene}, canvas'.line = 0
    PROVE  FInv'
BY DEF FInv, PageOfRuns, CanvasIsOne

-----------------------------------------------------------------------------

\* Changing one field of a form keeps it a form.
LEMMA FieldOfForm ==
    ASSUME NEW f \in Forms, NEW r \in Refs, NEW b \in Amounts
    PROVE  /\ \A name \in {"seed", "hash", "nonce", "roll"} : [f EXCEPT ![name] = r] \in Forms
           /\ [f EXCEPT !.bet = b] \in Forms
           /\ [f EXCEPT !.hash = r] \in Forms
           /\ [f EXCEPT !.seed = r, !.nonce = r, !.bet = b] \in Forms
           /\ [seed |-> r, hash |-> r, nonce |-> r, roll |-> r, bet |-> b] \in Forms
BY DEF Forms

\* A run that begins or ends.
LEMMA RunStep ==
    ASSUME FairTypes, RunsReady, NEW s \in Slots, NEW pc \in PCs, NEW f \in Forms,
           runs' = [runs EXCEPT ![s] = [pc |-> pc, form |-> f]],
           Ready([pc |-> pc, form |-> f])
    PROVE  /\ runs' \in [Slots -> [pc : PCs, form : Forms]]
           /\ RunsReady'
           /\ \A t \in Slots : t # s => runs'[t] = runs[t]
           /\ runs'[s].pc = pc
BY DEF FairTypes, RunsReady

\* Every step keeps the invariant.
LEMMA FairStep ==
    ASSUME PagesAssumption, ScaleAssumption, FInv, [Next]_pageVars
    PROVE  FInv'
<1> USE DEF PCs
<1>1. FairTypes /\ RunsReady
  BY DEF FInv
<1>2. ASSUME NEW fields, Edited(fields) PROVE form' = fields /\ edits' \in 0..MaxEdits
  BY <1>1, <1>2 DEF Edited, FairTypes, PagesAssumption
<1>3. CASE Edit
  <2>1. form' \in Forms
    <3>1. CASE \E name \in {"seed", "hash", "nonce", "roll"}, r \in Refs :
                  Edited([form EXCEPT ![name] = r])
      <4>1. PICK name \in {"seed", "hash", "nonce", "roll"}, r \in Refs :
                form' = [form EXCEPT ![name] = r]
        BY <3>1 DEF Edited
      <4>2. form \in Forms /\ 0 \in Amounts
        BY <1>1, Values DEF FairTypes
      <4> QED
        BY <4>1, <4>2, FieldOfForm
    <3>2. CASE \E r \in Rounds : \E amount \in Written(settled[r].stake) :
                  Edited([form EXCEPT !.bet = amount])
      <4>1. PICK amount \in Amounts : form' = [form EXCEPT !.bet = amount]
        BY <1>1, <3>2, Values DEF Edited
      <4>2. form \in Forms /\ NoRound \in Refs
        BY <1>1, Values DEF FairTypes
      <4> QED
        BY <4>1, <4>2, FieldOfForm
    <3> QED
      BY <1>3, <3>1, <3>2 DEF Edit
  <2>2. edits' \in 0..MaxEdits
    BY <1>2, <1>3 DEF Edit
  <2>3. FairTypes'
    BY <1>1, <1>3, <2>1, <2>2 DEF Edit, FairTypes, round, checking
  <2> QED
    BY <1>1, <1>3, <2>3, QuietStep
    DEF Edit, round, Painting, RunsReady, PageOfRuns, FInv
<1>4. CASE Import
  <2>0. PICK r \in Rounds :
          \E amount \in {0, settled[r].stake * Scale} : Edited(Parsed(r, amount))
    BY <1>4 DEF Import
  <2>1. PICK amount \in {0, settled[r].stake * Scale} : Edited(Parsed(r, amount))
    BY <2>0
  <2>2. Parsed(r, amount) \in Forms
    <3>1. form.bet \in Amounts
      BY <1>1 DEF FairTypes, Forms
    <3>2. (IF amount = 0 THEN form.bet ELSE amount) \in Amounts
      BY <1>1, <3>1, Values
    <3> QED
      BY <1>1, <3>2, Values, FieldOfForm DEF Parsed, FairTypes
  <2>3. NoCard \in [kind : {"none", "result", "refused"}, form : Forms, ok : BOOLEAN,
                    prize : Prizes]
    BY <1>1, Values DEF NoCard
  <2>4. FairTypes'
    BY <1>1, <1>2, <1>4, <2>1, <2>2, <2>3 DEF Import, FairTypes, round
  <2> QED
    BY <1>1, <1>4, <2>4, QuietStep
    DEF Import, round, Painting, RunsReady, PageOfRuns, FInv
<1>5. CASE Clear
  <2>1. NoCard \in [kind : {"none", "result", "refused"}, form : Forms, ok : BOOLEAN,
                    prize : Prizes]
    BY <1>1, Values DEF NoCard
  <2>2. FairTypes'
    BY <1>1, <1>2, <1>5, <2>1, Values DEF Clear, FairTypes, round
  <2> QED
    BY <1>1, <1>5, <2>2, QuietStep
    DEF Clear, round, Painting, RunsReady, PageOfRuns, FInv
<1>6. CASE CopyLink \/ LinkCopied
  <2>1. FairTypes'
    BY <1>1, <1>6, Values DEF CopyLink, LinkCopied, FairTypes, round
  <2> QED
    BY <1>1, <1>6, <2>1, QuietStep
    DEF CopyLink, LinkCopied, round, Painting, RunsReady, PageOfRuns, FInv
<1>7. CASE OpenLink
  <2>1. NoCard \in [kind : {"none", "result", "refused"}, form : Forms, ok : BOOLEAN,
                    prize : Prizes]
    BY <1>1, Values DEF NoCard
  <2>2. FairTypes'
    BY <1>1, <1>7, <2>1, Values DEF OpenLink, FairTypes, round
  <2>3. \A s \in Slots : ~Painting(s)
    BY <1>7 DEF OpenLink, FInv, PageOfRuns, Painting
  <2>4. \A s \in Slots : ~Painting(s)'
    BY <1>7 DEF OpenLink, Painting, Idle
  <2>5. RunsReady' /\ PageOfRuns'
    BY <1>7 DEF OpenLink, RunsReady, Ready, Idle, PageOfRuns
  <2> QED
    BY <1>7, <2>2, <2>3, <2>4, <2>5, QuietStep DEF OpenLink, round
<1>8. ASSUME NEW s \in Slots, Check(s) PROVE FInv'
  <2>1. /\ runs' = [runs EXCEPT ![s] = [pc |-> "check", form |-> form]] /\ runs[s].pc = "idle"
        /\ Ready([pc |-> "check", form |-> form]) /\ form \in Forms
    BY <1>1, <1>8 DEF Check, Begin, Idle, Complete, Shareable, Ready, FairTypes
  <2>2. FairTypes' /\ RunsReady'
    BY <1>1, <1>8, <2>1, RunStep DEF Check, FairTypes, round, checking
  <2>3. \A t \in Slots : Painting(t)' <=> Painting(t)
    BY <1>1, <2>1, RunStep DEF Painting
  <2>4. PageOfRuns'
    BY <1>1, <1>8, <2>1, RunStep DEF Check, PageOfRuns, FInv, round
  <2> QED
    BY <1>8, <2>2, <2>3, <2>4, QuietStep DEF Check, round
<1>9. Ready(Idle) /\ Empty \in Forms
  BY <1>1, Values DEF Ready, Idle
<1>10. ASSUME NEW s \in Slots, CheckDone(s) PROVE FInv'
  <2>1. /\ runs[s].pc = "check" /\ runs' = [runs EXCEPT ![s] = [pc |-> "idle", form |-> Empty]]
        /\ card' = Result(runs[s].form)
    BY <1>10 DEF CheckDone, Idle
  <2>2. runs[s].form \in Forms /\ runs[s].form.seed # NoRound
    BY <1>1, <2>1 DEF FairTypes, RunsReady, Ready
  <2> DEFINE f     == runs[s].form
             prize == IF f.bet > 0 /\ f.seed = f.nonce
                      THEN ComputeOutcome(settled[f.seed].pick, f.bet).prize ELSE 0
  <2>3. prize \in Prizes
    BY <1>1, <2>2, PageOutcome, Values
  <2>4. Result(f) \in [kind : {"none", "result", "refused"}, form : Forms, ok : BOOLEAN,
                       prize : Prizes]
    <3>1. Verdict(f) \in BOOLEAN
      BY DEF Verdict
    <3> HIDE DEF prize
    <3>2. [kind |-> "result", form |-> f, ok |-> Verdict(f), prize |-> prize]
            \in [kind : {"none", "result", "refused"}, form : Forms, ok : BOOLEAN,
                 prize : Prizes]
      BY <2>2, <2>3, <3>1
    <3> QED
      BY <3>2 DEF Result, prize
  <2>5. FairTypes' /\ RunsReady'
    BY <1>1, <1>9, <1>10, <2>1, <2>4, RunStep DEF CheckDone, FairTypes, round, Idle
  <2>6. \A t \in Slots : Painting(t)' <=> Painting(t)
    BY <1>1, <1>9, <2>1, RunStep DEF Painting, Idle
  <2>7. PageOfRuns'
    BY <1>1, <1>9, <1>10, <2>1, RunStep DEF CheckDone, PageOfRuns, FInv, round, Idle
  <2> QED
    BY <1>10, <2>5, <2>6, <2>7, QuietStep DEF CheckDone, round
<1>11. ASSUME NEW s \in Slots, CheckFails(s) \/ LoadFails(s) PROVE FInv'
  <2>1. /\ runs[s].pc \in {"check", "load"}
        /\ runs' = [runs EXCEPT ![s] = [pc |-> "idle", form |-> Empty]]
    BY <1>11 DEF CheckFails, LoadFails, Idle
  <2>2. FairTypes' /\ RunsReady'
    BY <1>1, <1>9, <1>11, <2>1, RunStep
    DEF CheckFails, LoadFails, FairTypes, round, checking, Idle
  <2>3. \A t \in Slots : Painting(t)' <=> Painting(t)
    BY <1>1, <1>9, <2>1, RunStep DEF Painting, Idle
  <2>4. PageOfRuns'
    BY <1>1, <1>9, <1>11, <2>1, RunStep DEF CheckFails, LoadFails, PageOfRuns, FInv, round, Idle
  <2> QED
    BY <1>11, <2>2, <2>3, <2>4, QuietStep DEF CheckFails, LoadFails, round
<1>12. ASSUME NEW s \in Slots, Replay(s) PROVE FInv'
  <2> DEFINE pc == IF form.hash # NoRound THEN "load" ELSE "derive"
  <2>1. /\ runs' = [runs EXCEPT ![s] = [pc |-> pc, form |-> form]] /\ runs[s].pc = "idle"
        /\ Ready([pc |-> pc, form |-> form]) /\ form \in Forms
    BY <1>1, <1>12 DEF Replay, Begin, Idle, Shareable, Ready, FairTypes
  <2>2. FairTypes' /\ RunsReady'
    BY <1>1, <1>12, <2>1, RunStep DEF Replay, FairTypes, round, checking
  <2>3. \A t \in Slots : Painting(t)' <=> Painting(t)
    BY <1>1, <2>1, RunStep DEF Painting
  <2>4. PageOfRuns'
    BY <1>12 DEF Replay, PageOfRuns, round
  <2> QED
    BY <1>12, <2>2, <2>3, <2>4, QuietStep DEF Replay, round
<1>13. ASSUME NEW s \in Slots, NEW f \in Forms, Paint(s, f), form' \in Forms,
              f.hash # NoRound \/ f.seed # NoRound, runs[s].pc \in {"load", "derive"},
              UNCHANGED <<round, checking, edits>>
       PROVE  FInv'
  <2>1. /\ runs' = [runs EXCEPT ![s] = [pc |-> "cast", form |-> f]]
        /\ canvas' = [scene |-> f, fish |-> Empty, line |-> 0]
        /\ Ready([pc |-> "cast", form |-> f])
    BY <1>13 DEF Paint, Ready
  <2>2. FairTypes' /\ RunsReady'
    BY <1>1, <1>9, <1>13, <2>1, RunStep, Values DEF FairTypes, round, checking
  <2>3. page # "verify"
    BY <1>13 DEF FInv, PageOfRuns
  <2>4. Painting(s)'
    BY <1>1, <2>1, RunStep DEF Painting
  <2>5. canvas'.fish \in {Empty, canvas'.scene} /\ canvas'.line = 0
    BY <2>1
  <2> QED
    BY <1>13, <2>2, <2>3, <2>4, <2>5, PaintStep DEF round
<1>14. ASSUME NEW s \in Slots, Loaded(s) PROVE FInv'
  <2> DEFINE r == runs[s].form.hash
             b == BetAmountFromReplay(settled[r].stake)
             f == [form EXCEPT !.seed = r, !.nonce = r, !.bet = b]
  <2>1. r \in Rounds
    BY <1>1, <1>14 DEF Loaded, RunsReady, Ready, FairTypes, Forms, Refs
  <2>2. r \in Refs /\ b \in Amounts /\ form \in Forms /\ r # NoRound
    BY <1>1, <2>1, Values DEF FairTypes, PagesAssumption
  <2>3. f \in Forms
    BY <2>2, FieldOfForm
  <2>4. [f EXCEPT !.hash = r] \in Forms /\ [f EXCEPT !.hash = r].hash # NoRound
    BY <2>2, <2>3, FieldOfForm DEF Forms
  <2>5. form' = f /\ Paint(s, [f EXCEPT !.hash = r]) /\ runs[s].pc = "load"
        /\ UNCHANGED <<round, checking, edits>>
    BY <1>14 DEF Loaded
  <2> QED
    BY <1>13, <2>3, <2>4, <2>5
<1>15. ASSUME NEW s \in Slots, Derived(s) PROVE FInv'
  <2>1. /\ runs[s].pc = "derive" /\ Paint(s, runs[s].form)
        /\ runs[s].form \in Forms /\ form' \in Forms
        /\ runs[s].form.hash # NoRound \/ runs[s].form.seed # NoRound
    BY <1>1, <1>15 DEF Derived, FairTypes, RunsReady, Ready
  <2> QED
    BY <1>13, <1>15, <2>1 DEF Derived
<1>16. ASSUME NEW s \in Slots, CastOver(s) PROVE FInv'
  <2>0. runs[s] \in [pc : PCs, form : Forms]
    BY <1>1 DEF FairTypes
  <2>1. /\ runs' = [runs EXCEPT ![s] = [pc |-> "path", form |-> runs[s].form]]
        /\ canvas' = Picture(runs[s].form)
        /\ runs[s].pc = "cast" /\ runs[s].form \in Forms
    <3>1. runs' = [runs EXCEPT ![s] = [runs[s] EXCEPT !.pc = "path"]]
      BY <1>16 DEF CastOver
    <3>2. [runs[s] EXCEPT !.pc = "path"] = [pc |-> "path", form |-> runs[s].form]
      BY <2>0
    <3> QED
      BY <1>16, <2>0, <3>1, <3>2 DEF CastOver
  <2>2. Ready([pc |-> "path", form |-> runs[s].form])
    BY <1>1, <2>1 DEF RunsReady, Ready
  <2>3. FairTypes' /\ RunsReady'
    <3>1. canvas' \in [scene : Forms, fish : Forms, line : Lines]
      BY <1>1, <2>1, Values DEF Picture
    <3>2. "path" \in PCs
      OBVIOUS
    <3> QED
      BY <1>1, <1>16, <2>1, <2>2, <3>1, <3>2, RunStep DEF CastOver, FairTypes, round, checking
  <2>4. page # "verify" /\ UNCHANGED <<page, settled>>
    BY <1>16, <2>1 DEF CastOver, FInv, PageOfRuns, round
  <2>5. Painting(s)'
    BY <1>1, <2>1, <2>2, RunStep DEF Painting
  <2>6. canvas'.fish \in {Empty, canvas'.scene} /\ canvas'.line = 0
    BY <2>1 DEF Picture
  <2> QED
    BY <2>3, <2>4, <2>5, <2>6, PaintStep
<1>17. ASSUME NEW s \in Slots, Frame(s) PROVE FInv'
  <2>1. /\ runs[s].pc = "path" /\ runs[s].form \in Forms
        /\ page # "verify" /\ UNCHANGED <<page, settled, runs>>
    BY <1>1, <1>17 DEF Frame, FairTypes, FInv, PageOfRuns, round
  <2>2. FairTypes' /\ RunsReady'
    BY <1>1, <1>17, <2>1, Values
    DEF Frame, FairTypes, RunsReady, round, checking, Picture
  <2>3. canvas'.fish \in {Empty, canvas'.scene} /\ canvas'.line = 0
    BY <1>17 DEF Frame, Picture
  <2> QED
    BY <2>1, <2>2, <2>3, PaintStep DEF Painting
<1>18. ASSUME NEW s \in Slots, ReplayOver(s) PROVE FInv'
  <2> DEFINE f == runs[s].form
  <2>1. /\ runs[s].pc = "path" /\ f \in Forms
        /\ runs' = [runs EXCEPT ![s] = [pc |-> "idle", form |-> Empty]]
        /\ canvas' = [scene |-> f, fish |-> f, line |-> Line(f)]
        /\ f.hash # NoRound \/ f.seed # NoRound
        /\ UNCHANGED <<round, form, checking, edits>>
    BY <1>1, <1>18 DEF ReplayOver, LastFrame, Picture, Idle, FairTypes, RunsReady, Ready
  <2>2. Line(f) \in Lines
    <3>1. CASE f.hash # NoRound
      <4>1. f.hash \in Rounds
        BY <2>1, <3>1 DEF Forms, Refs
      <4>2. settled[f.hash].pick \in Picks /\ settled[f.hash].stake \in Stakes
        BY <1>1, <4>1 DEF FairTypes, Picks, Stakes
      <4>3. Outcome(settled[f.hash].pick, settled[f.hash].stake).prize \in Prizes
        BY <4>2 DEF Prizes
      <4> QED
        BY <3>1, <4>3 DEF Line, Lines
    <3>2. CASE f.hash = NoRound
      BY <1>1, <2>1, <3>2, PageOutcome, Values DEF Line, Lines
    <3> QED
      BY <3>1, <3>2
  <2>3. FairTypes' /\ RunsReady'
    BY <1>1, <1>9, <2>1, <2>2, RunStep DEF FairTypes, round, checking, Idle
  <2>4. CanvasIsOne'
    BY <2>1 DEF CanvasIsOne, Line, round
  <2>5. PageOfRuns'
    BY <1>1, <1>9, <2>1, RunStep DEF PageOfRuns, FInv, round, Idle
  <2> QED
    BY <2>3, <2>4, <2>5 DEF FInv
<1>20. CASE CheckRefused
  <2>1. card' \in [kind : {"none", "result", "refused"}, form : Forms, ok : BOOLEAN,
                   prize : Prizes]
    BY <1>1, <1>20, Values DEF CheckRefused, NoCard
  <2>2. FairTypes'
    BY <1>1, <1>20, <2>1 DEF CheckRefused, FairTypes, round
  <2> QED
    BY <1>1, <1>20, <2>2, QuietStep
    DEF CheckRefused, round, Painting, RunsReady, PageOfRuns, FInv
<1>19. CASE UNCHANGED pageVars
  BY <1>1, <1>19, QuietStep
  DEF pageVars, round, checking, FairTypes, RunsReady, Ready, Painting, PageOfRuns, FInv
<1> QED
  BY <1>3, <1>4, <1>5, <1>6, <1>7, <1>8, <1>10, <1>11, <1>12, <1>14, <1>15, <1>16, <1>17,
     <1>18, <1>19, <1>20 DEF Next

-----------------------------------------------------------------------------

\* The invariant holds in every state of the pages.
THEOREM FairInvariant == Spec => []FInv
<1>1. Init => FInv
  BY FairInit, PagesAssumption, ScaleAssumption
<1>2. FInv /\ [Next]_pageVars => FInv'
  BY FairStep, PagesAssumption, ScaleAssumption
<1> QED
  BY <1>1, <1>2, PTL DEF Spec

\* Whatever is written, imported, loaded and replayed, the fields hold values
\* of rounds, and the card and the canvas prizes that are computed from them.
THEOREM FairTypesHold == Spec => []FairTypeOK
<1>1. FInv => FairTypeOK
  BY DEF FInv, FairTypes, FairTypeOK, PCs
<1> QED
  BY <1>1, FairInvariant, PTL

\* However many replays overlap, the canvas shows one, and the end of one when
\* all have ended.
THEOREM OnePicture == Spec => []PictureIsOne
<1>1. FInv => PictureIsOne
  BY DEF FInv, PictureIsOne, CanvasIsOne, Running, Painting, Idle
<1> QED
  BY <1>1, FairInvariant, PTL

-----------------------------------------------------------------------------
(* The table, twice *)

\* The weights of the rows, and their sums.
Weights == <<570000, 160000, 170000, 50000, 30000, 12000, 5000, 2000, 800, 160, 40>>

Totals == <<570000, 730000, 900000, 950000, 980000, 992000, 997000, 999000, 999800, 999960,
            1000000>>
SumOf(i) == IF i = 0 THEN 0 ELSE Totals[i]

\* The sums of the weights are a recursive function, which the provers know as a
\* choice: there is one to be chosen, for the sums above are one.
IsSum(t, s) == s = [i \in 0..Len(t) |-> IF i = 0 THEN 0 ELSE s[i - 1] + t[i].weight]

LEMMA SumsExist ==
    ASSUME NEW t, Len(t) = 11, \A i \in 1..11 : t[i].weight = Weights[i]
    PROVE  IsSum(t, Sums(t))
<1> DEFINE w == [i \in 0..11 |-> SumOf(i)]
<1>1. \A i \in 1..11 : w[i] = w[i - 1] + Weights[i]
  BY DEF SumOf, Totals, Weights
<1>2. IsSum(t, w)
  BY <1>1 DEF IsSum, SumOf
<1>3. IsSum(t, CHOOSE s : IsSum(t, s))
  BY <1>2
<1>4. Sums(t) = CHOOSE s : IsSum(t, s)
  BY DEF Sums, IsSum
<1> QED
  BY <1>3, <1>4

\* Row by row, there is no other.
LEMMA SumsAre ==
    ASSUME NEW t, Len(t) = 11, \A i \in 1..11 : t[i].weight = Weights[i]
    PROVE  \A i \in 1..11 : Sums(t)[i] = Totals[i]
<1> DEFINE s == Sums(t)
<1>1. IsSum(t, s)
  BY SumsExist
<1> HIDE DEF s
<1>2. s[0] = 0 /\ \A i \in 1..11 : s[i] = s[i - 1] + Weights[i]
  BY <1>1 DEF IsSum
<1>3. s[1] = 570000 /\ s[2] = 730000 /\ s[3] = 900000 /\ s[4] = 950000
  BY <1>2 DEF Weights
<1>4. s[5] = 980000 /\ s[6] = 992000 /\ s[7] = 997000 /\ s[8] = 999000
  BY <1>2, <1>3 DEF Weights
<1>5. s[9] = 999800 /\ s[10] = 999960 /\ s[11] = 1000000
  BY <1>2, <1>4 DEF Weights
<1>6. \A i \in 1..11 : s[i] = Totals[i]
  BY <1>3, <1>4, <1>5 DEF Totals
<1> QED
  BY <1>6 DEF s

\* Table and mirror weigh the same.
LEMMA TableRows ==
    /\ Len(Table) = 11 /\ Len(Mirror) = 11 /\ DOMAIN Table = 1..11 /\ DOMAIN Mirror = 1..11
    /\ \A i \in 1..11 : Table[i].weight = Weights[i] /\ Mirror[i].weight = Weights[i]
<1>1. Len(Table) = 11 /\ DOMAIN Table = 1..11
  BY DEF Table
<1>2. Len(Mirror) = 11 /\ DOMAIN Mirror = 1..11
  BY DEF Mirror
<1>3. \A i \in 1..11 : Table[i].weight = Weights[i]
  BY DEF Table, Row, Weights
<1>4. \A i \in 1..11 : Mirror[i].weight = Weights[i]
  BY DEF Mirror, Row, Weights
<1> QED
  BY <1>1, <1>2, <1>3, <1>4

LEMMA CumulativeAre ==
    \A i \in 1..11 : Cumulative[i] = Totals[i] /\ MirrorSums[i] = Totals[i]
BY SumsAre, TableRows DEF Cumulative, MirrorSums

LEMMA TotalIs == TotalWeight = Totals[11]
BY CumulativeAre, TableRows DEF TotalWeight

\* The row k of a pick is the first one whose sum is above it.
LEMMA RowOf ==
    ASSUME NEW pick \in Nat, pick < Totals[11]
    PROVE  \E k \in 1..11 : \A j \in 1..11 : Totals[j] <= pick <=> j < k
<1>1. PICK k \in 1..11 : pick < Totals[k] /\ (k = 1 \/ Totals[k - 1] <= pick)
  BY SMT DEF Totals
<1>2. \A i, j \in 1..11 : i <= j => Totals[i] <= Totals[j]
  BY SMT DEF Totals
<1>3. \A j \in 1..11 : Totals[j] <= pick <=> j < k
  <2> TAKE j \in 1..11
  <2>1. CASE j < k
    <3>1. k - 1 \in 1..11 /\ j <= k - 1
      BY <2>1
    <3> QED
      BY <1>1, <1>2, <2>1, <3>1, SMT DEF Totals
  <2>2. CASE j >= k
    BY <1>1, <1>2, <2>2, SMT DEF Totals
  <2> QED
    BY <2>1, <2>2
<1> QED
  BY <1>1, <1>3

\* What the search for a pick solves, as a function of its window.
Windows == (1..11) \X (1..11)

LEMMA TableWindows == (DOMAIN Table) \X (DOMAIN Table) = Windows
<1>1. DOMAIN Table = 1..11
  BY TableRows
<1> QED
  BY <1>1, Zenon DEF Windows

IsFind(pick, f) ==
    f = [window \in (DOMAIN Table) \X (DOMAIN Table) |->
            IF window[1] >= window[2] THEN window[1]
            ELSE IF Cumulative[(window[1] + window[2]) \div 2] <= pick
                 THEN f[<<(window[1] + window[2]) \div 2 + 1, window[2]>>]
                 ELSE f[<<window[1], (window[1] + window[2]) \div 2>>]]

LEMMA FindDef ==
    ASSUME NEW pick
    PROVE  SamplePick(pick) = Table[(CHOOSE f : IsFind(pick, f))[<<1, Len(Table)>>]]
BY DEF SamplePick, IsFind

\* The search has a solution: the row of the pick, brought into the window.
LEMMA FindExists ==
    ASSUME NEW pick, NEW k \in 1..11, \A j \in 1..11 : Totals[j] <= pick <=> j < k
    PROVE  \E f : IsFind(pick, f)
<1> DEFINE Clamp(low, high) ==
              IF low >= high \/ k < low THEN low ELSE IF k > high THEN high ELSE k
           w == [window \in Windows |-> Clamp(window[1], window[2])]
<1>1. ASSUME NEW low \in 1..11, NEW high \in 1..11, low < high
     PROVE  LET mid == (low + high) \div 2
             IN  /\ mid \in 1..11 /\ mid + 1 \in 1..11
                 /\ Totals[mid] <= pick <=> mid < k
                 /\ Clamp(low, high) = IF mid < k THEN Clamp(mid + 1, high) ELSE Clamp(low, mid)
  <2>1. PICK mid \in Int : mid = (low + high) \div 2
    OBVIOUS
  <2>2. low <= mid /\ mid < high
    BY <1>1, <2>1
  <2>3. mid \in 1..11 /\ mid + 1 \in 1..11
    BY <2>2
  <2>4. Clamp(low, high) = IF mid < k THEN Clamp(mid + 1, high) ELSE Clamp(low, mid)
    BY <1>1, <2>2, <2>3
  <2>5. Totals[mid] <= pick <=> mid < k
    BY <2>3
  <2> QED
    BY <2>1, <2>3, <2>4, <2>5
<1>2. ASSUME NEW window \in Windows
     PROVE  w[window] =
            IF window[1] >= window[2] THEN window[1]
            ELSE IF Cumulative[(window[1] + window[2]) \div 2] <= pick
                 THEN w[<<(window[1] + window[2]) \div 2 + 1, window[2]>>]
                 ELSE w[<<window[1], (window[1] + window[2]) \div 2>>]
  <2>1. PICK low \in 1..11, high \in 1..11 : window = <<low, high>>
    BY DEF Windows
  <2>2. CASE low >= high
    BY <2>1, <2>2
  <2>3. CASE low < high
    <3> DEFINE mid == (low + high) \div 2
    <3>1. /\ mid \in 1..11 /\ mid + 1 \in 1..11
          /\ Totals[mid] <= pick <=> mid < k
          /\ Clamp(low, high) = IF mid < k THEN Clamp(mid + 1, high) ELSE Clamp(low, mid)
      BY <1>1, <2>3
    <3>2. Cumulative[mid] = Totals[mid]
      BY <3>1, CumulativeAre
    <3>3. /\ w[<<mid + 1, high>>] = Clamp(mid + 1, high)
          /\ w[<<low, mid>>] = Clamp(low, mid)
          /\ w[<<low, high>>] = Clamp(low, high)
      <4> HIDE DEF mid, Clamp
      <4>1. <<mid + 1, high>> \in Windows /\ <<low, mid>> \in Windows /\ <<low, high>> \in Windows
        BY <3>1 DEF Windows
      <4> QED
        BY <4>1
    <3> HIDE DEF mid, w, Clamp
    <3>4. w[<<low, high>>] =
             IF Cumulative[mid] <= pick THEN w[<<mid + 1, high>>] ELSE w[<<low, mid>>]
      BY <3>1, <3>2, <3>3
    <3> QED
      BY <2>1, <2>3, <3>4 DEF mid
  <2> QED
    BY <2>1, <2>2, <2>3
<1> HIDE DEF w
<1>3. IsFind(pick, w)
  <2>1. w = [window \in Windows |->
            IF window[1] >= window[2] THEN window[1]
            ELSE IF Cumulative[(window[1] + window[2]) \div 2] <= pick
                 THEN w[<<(window[1] + window[2]) \div 2 + 1, window[2]>>]
                 ELSE w[<<window[1], (window[1] + window[2]) \div 2>>]]
    BY <1>2 DEF w
  <2> QED
    BY <2>1, TableWindows DEF IsFind
<1> QED
  BY <1>3

\* It is what the search finds.
LEMMA FindsRow ==
    ASSUME NEW pick, NEW k \in 1..11, \A j \in 1..11 : Totals[j] <= pick <=> j < k
    PROVE  SamplePick(pick) = Table[k]
<1> DEFINE f == CHOOSE g : IsFind(pick, g)
<1>1. IsFind(pick, f)
  BY FindExists
<1>2. SamplePick(pick) = Table[f[<<1, 11>>]]
  BY FindDef, TableRows
<1> HIDE DEF f
<1>3. ASSUME NEW low \in 1..11, NEW high \in 1..11
     PROVE  f[<<low, high>>] =
                IF low >= high THEN low
                ELSE IF (low + high) \div 2 < k THEN f[<<(low + high) \div 2 + 1, high>>]
                ELSE f[<<low, (low + high) \div 2>>]
  <2>1. <<low, high>> \in (DOMAIN Table) \X (DOMAIN Table)
    <3>1. <<low, high>> \in Windows
      BY DEF Windows
    <3> QED
      BY <3>1, TableWindows
  <2>2. low < high => (low + high) \div 2 \in 1..11
    OBVIOUS
  <2>3. low < high => (Cumulative[(low + high) \div 2] <= pick <=> (low + high) \div 2 < k)
    BY <2>2, CumulativeAre
  <2>4. f[<<low, high>>] =
                IF low >= high THEN low
                ELSE IF Cumulative[(low + high) \div 2] <= pick
                     THEN f[<<(low + high) \div 2 + 1, high>>]
                ELSE f[<<low, (low + high) \div 2>>]
    BY <1>1, <2>1 DEF IsFind
  <2> QED
    BY <2>3, <2>4
<1>4. /\ f[<<1, 1>>] = 1 /\ f[<<2, 2>>] = 2 /\ f[<<3, 3>>] = 3 /\ f[<<4, 4>>] = 4
      /\ f[<<5, 5>>] = 5 /\ f[<<6, 6>>] = 6 /\ f[<<7, 7>>] = 7 /\ f[<<8, 8>>] = 8
      /\ f[<<9, 9>>] = 9 /\ f[<<10, 10>>] = 10 /\ f[<<11, 11>>] = 11
  BY <1>3
<1>5. /\ f[<<1, 2>>] = IF 1 < k THEN f[<<2, 2>>] ELSE f[<<1, 1>>]
      /\ f[<<4, 5>>] = IF 4 < k THEN f[<<5, 5>>] ELSE f[<<4, 4>>]
      /\ f[<<7, 8>>] = IF 7 < k THEN f[<<8, 8>>] ELSE f[<<7, 7>>]
      /\ f[<<10, 11>>] = IF 10 < k THEN f[<<11, 11>>] ELSE f[<<10, 10>>]
  BY <1>3
<1>6. /\ f[<<1, 3>>] = IF 2 < k THEN f[<<3, 3>>] ELSE f[<<1, 2>>]
      /\ f[<<4, 6>>] = IF 5 < k THEN f[<<6, 6>>] ELSE f[<<4, 5>>]
      /\ f[<<7, 9>>] = IF 8 < k THEN f[<<9, 9>>] ELSE f[<<7, 8>>]
  BY <1>3
<1>7. /\ f[<<1, 3>>] = IF k <= 1 THEN 1 ELSE IF k <= 2 THEN 2 ELSE 3
      /\ f[<<4, 6>>] = IF k <= 4 THEN 4 ELSE IF k <= 5 THEN 5 ELSE 6
      /\ f[<<7, 9>>] = IF k <= 7 THEN 7 ELSE IF k <= 8 THEN 8 ELSE 9
      /\ f[<<10, 11>>] = IF k <= 10 THEN 10 ELSE 11
  BY <1>4, <1>5, <1>6
<1>8. /\ f[<<1, 6>>] = IF 3 < k THEN f[<<4, 6>>] ELSE f[<<1, 3>>]
      /\ f[<<7, 11>>] = IF 9 < k THEN f[<<10, 11>>] ELSE f[<<7, 9>>]
      /\ f[<<1, 11>>] = IF 6 < k THEN f[<<7, 11>>] ELSE f[<<1, 6>>]
  BY <1>3
<1>9. f[<<1, 11>>] = k
  BY <1>7, <1>8
<1> QED
  BY <1>2, <1>9

\* The walk stops at the row of the pick.
LEMMA WalksToRow ==
    ASSUME NEW pick, NEW k \in 1..11, \A j \in 1..11 : Totals[j] <= pick <=> j < k, pick \in Nat
    PROVE  SamplePAR(pick) = Mirror[k]
<1> DEFINE above == {i \in DOMAIN Mirror : pick < MirrorSums[i]} \cup {Len(Mirror)}
<1>1. \A i \in 1..11 : Totals[i] \in Nat
  BY SMT DEF Totals
<1>2. above = k..11
  BY <1>1, TableRows, CumulativeAre
<1> HIDE DEF above
<1>3. Min(above) = k
  BY <1>2 DEF Min
<1> QED
  BY <1>3 DEF SamplePAR, above

-----------------------------------------------------------------------------
(* The prize, twice *)

LEMMA Halves == Half \in Nat /\ Half >= 1 /\ Scale = 2 * Half /\ Scale \in Nat
BY ScaleAssumption DEF ScaleAssumption, Half

\* A division that drops less than the divisor.
LEMMA Divided ==
    ASSUME NEW s \in Nat \ {0}, NEW q \in Nat, NEW r \in 0..(s - 1)
    PROVE  (q * s + r) \div s = q /\ (q * s) % s = 0
OBVIOUS

\* The rows pay in whole units, but for the one that pays half of one.
LEMMA RowsAlike ==
    ASSUME NEW k \in 1..11
    PROVE  /\ Mirror[k].tier = Table[k].tier /\ Mirror[k].multiplier = Table[k].multiplier
           /\ Table[k].multiplier = Half \/ \E q \in Nat : Table[k].multiplier = q * Scale
<1> USE Halves
<1>1. CASE k \in {1, 2, 3, 4}
  BY <1>1 DEF Table, Mirror, Row
<1>2. CASE k \in {5, 6, 7}
  BY <1>2 DEF Table, Mirror, Row
<1>3. CASE k \in {8, 9, 10, 11}
  BY <1>3 DEF Table, Mirror, Row
<1> QED
  BY <1>1, <1>2, <1>3

\* What is cut off is half a unit of an odd bet.
LEMMA PrizesAlike ==
    ASSUME NEW m \in Nat, NEW bet \in Nat, m = Half \/ \E q \in Nat : m = q * Scale
    PROVE  \/ ApplyMultiplier(bet, m) = Apply(m, bet)
           \/ /\ ApplyMultiplier(bet, m) = Apply(m, bet) - 1
              /\ m = Half /\ bet % 2 = 1
<1>0. Half \in Nat /\ Half >= 1 /\ Scale = 2 * Half /\ Scale \in Nat \ {0}
  BY Halves
<1>1. ASSUME NEW q \in Nat, m = q * Scale
      PROVE  ApplyMultiplier(bet, m) = Apply(m, bet)
  <2>1. PICK n \in Nat : n = bet * q
    OBVIOUS
  <2>2. bet * m = n * Scale
    BY <1>0, <1>1, <2>1
  <2>3. 0 \in 0..(Scale - 1) /\ Half \in 0..(Scale - 1)
    BY <1>0
  <2>4. (n * Scale + 0) \div Scale = n /\ (n * Scale + Half) \div Scale = n
    BY <1>0, <2>3, Divided
  <2>5. n * Scale + 0 = n * Scale
    BY <1>0
  <2> QED
    BY <2>2, <2>4, <2>5 DEF Apply, ApplyMultiplier
<1>2. CASE m = Half
  <2>1. PICK n \in Nat, odd \in {0, 1} : bet = 2 * n + odd
    <3>1. PICK n \in Nat : n = bet \div 2 /\ 2 * n <= bet /\ bet <= 2 * n + 1
      OBVIOUS
    <3>2. bet = 2 * n \/ bet = 2 * n + 1
      BY <3>1
    <3> QED
      BY <3>1, <3>2
  <2>2. bet * m = n * Scale + odd * Half
    BY <1>0, <1>2, <2>1
  <2>3. CASE odd = 0
    <3>1. bet * m = n * Scale + 0 /\ bet * m + Half = n * Scale + Half
      BY <1>0, <2>2, <2>3
    <3>2. 0 \in 0..(Scale - 1) /\ Half \in 0..(Scale - 1)
      BY <1>0
    <3>3. (n * Scale + 0) \div Scale = n /\ (n * Scale + Half) \div Scale = n
      BY <1>0, <3>2, Divided
    <3> QED
      BY <3>1, <3>3 DEF Apply, ApplyMultiplier
  <2>4. CASE odd = 1
    <3>1. bet * m = n * Scale + Half /\ bet * m + Half = (n + 1) * Scale + 0
      BY <1>0, <2>2, <2>4
    <3>2. 0 \in 0..(Scale - 1) /\ Half \in 0..(Scale - 1) /\ n + 1 \in Nat
      BY <1>0
    <3>3. (n * Scale + Half) \div Scale = n /\ ((n + 1) * Scale + 0) \div Scale = n + 1
      BY <1>0, <3>2, Divided
    <3>4. ApplyMultiplier(bet, m) = n /\ Apply(m, bet) = n + 1
      BY <3>1, <3>3 DEF Apply, ApplyMultiplier
    <3>5. bet % 2 = 1
      BY <2>1, <2>4
    <3> QED
      BY <1>2, <3>4, <3>5
  <2> QED
    BY <2>1, <2>3, <2>4
<1> QED
  BY <1>1, <1>2

\* An amount that is read as the bet is.
LEMMA AmountRead ==
    ASSUME NEW bet \in Nat \ {0}, NEW amount \in Nat, ReadAsBet(amount, bet)
    PROVE  amount > 0 /\ BetToMinor(amount) = bet
<1>0. Scale \in Nat \ {0} /\ Scale > 1
  BY ScaleAssumption DEF ScaleAssumption
<1>1. CASE amount = bet /\ (bet < Scale * Scale \/ bet % Scale # 0)
  BY <1>0, <1>1 DEF BetToMinor
<1>2. CASE amount = bet * Scale /\ bet >= Scale
  <2>1. 0 \in 0..(Scale - 1) /\ bet * Scale + 0 = bet * Scale
    BY <1>0
  <2>2. (bet * Scale + 0) \div Scale = bet /\ (bet * Scale) % Scale = 0
    BY <1>0, <2>1, Divided
  <2>3. bet * Scale >= Scale * Scale /\ bet * Scale > 0
    BY <1>0, <1>2
  <2> QED
    BY <1>2, <2>1, <2>2, <2>3 DEF BetToMinor
<1> QED
  BY <1>1, <1>2 DEF ReadAsBet

\* The page computes for an amount it reads right what the server computes.
LEMMA PagePays ==
    ASSUME PagesAssumption, settled \in Settlements, NEW r \in Rounds, NEW amount \in Nat,
           ReadAsBet(amount, settled[r].stake)
    PROVE  amount > 0 /\ PaysAlike(ComputeOutcome(settled[r].pick, amount).prize, r)
<1> DEFINE pick == settled[r].pick
           bet  == settled[r].stake
<1>1. pick \in 0..(TotalWeight - 1) /\ bet \in Nat \ {0}
  BY DEF PagesAssumption
<1>2. TotalWeight \in Nat
  <2>1. Totals[11] \in Nat
    BY SMT DEF Totals
  <2> QED
    BY <2>1, TotalIs
<1>3. pick \in Nat /\ pick < Totals[11]
  BY <1>1, <1>2, TotalIs
<1>4. PICK k \in 1..11 : \A j \in 1..11 : Totals[j] <= pick <=> j < k
  BY <1>3, RowOf
<1>5. SamplePick(pick) = Table[k] /\ SamplePAR(pick) = Mirror[k]
  BY <1>3, <1>4, FindsRow, WalksToRow
<1>6. amount > 0 /\ BetToMinor(amount) = bet
  BY <1>1, AmountRead
<1> DEFINE m == Table[k].multiplier
<1>7. m \in Nat /\ m = Mirror[k].multiplier /\ (m = Half \/ \E q \in Nat : m = q * Scale)
  BY RowsAlike, Halves
<1>8. \/ ApplyMultiplier(bet, m) = Apply(m, bet)
      \/ ApplyMultiplier(bet, m) = Apply(m, bet) - 1 /\ m = Half /\ bet % 2 = 1
  <2> HIDE DEF m, bet
  <2> QED
    BY <1>1, <1>7, PrizesAlike
<1>9. /\ ComputeOutcome(pick, amount).prize = ApplyMultiplier(bet, m)
      /\ Outcome(pick, bet).prize = Apply(m, bet)
      /\ SamplePick(pick).multiplier = m
  BY <1>5, <1>6, <1>7 DEF ComputeOutcome, Outcome
<1> QED
  BY <1>6, <1>8, <1>9 DEF PaysAlike

-----------------------------------------------------------------------------
(* What is shown *)

\* The card is that of the fields it is about.
Shown == card.kind = "result" => card.form.seed # NoRound /\ card = Result(card.form)

\* Every step leaves the card, writes one without a result, or the result of a
\* check.
LEMMA ShownStep ==
    ASSUME FInv, Shown, [Next]_pageVars
    PROVE  Shown'
<1>1. ASSUME UNCHANGED settled,
             \/ card' = card \/ card'.kind # "result"
             \/ \E f \in Forms : f.seed # NoRound /\ card' = Result(f)
      PROVE  Shown'
  <2>1. \A f : Result(f)' = Result(f)
    BY <1>1 DEF Result
  <2>2. CASE card' = card
    BY <2>1, <2>2 DEF Shown
  <2>3. CASE card'.kind # "result"
    BY <2>3 DEF Shown
  <2>4. ASSUME NEW f \in Forms, f.seed # NoRound, card' = Result(f)
        PROVE  Shown'
    <3>1. Result(f).form = f
      BY DEF Result
    <3> QED
      BY <2>1, <2>4, <3>1 DEF Shown
  <2> QED
    BY <1>1, <2>2, <2>3, <2>4
<1>2. \A s \in Slots : runs[s].form \in Forms /\ Ready(runs[s])
  BY DEF FInv, FairTypes, RunsReady
<1>3. CASE Edit \/ CopyLink \/ LinkCopied
  BY <1>1, <1>3 DEF Edit, CopyLink, LinkCopied, round, checking
<1>4. CASE Import \/ Clear \/ OpenLink \/ CheckRefused
  BY <1>1, <1>4 DEF Import, Clear, OpenLink, CheckRefused, round, NoCard
<1>5. ASSUME NEW s \in Slots, Check(s) \/ CheckFails(s) \/ Replay(s) \/ LoadFails(s)
      PROVE  Shown'
  BY <1>1, <1>5 DEF Check, CheckFails, Replay, LoadFails, round, checking
<1>6. ASSUME NEW s \in Slots, CheckDone(s) PROVE Shown'
  <2>1. runs[s].form.seed # NoRound
    BY <1>2, <1>6 DEF CheckDone, Ready
  <2> QED
    BY <1>1, <1>2, <1>6, <2>1 DEF CheckDone, round
<1>7. ASSUME NEW s \in Slots,
             Loaded(s) \/ Derived(s) \/ CastOver(s) \/ Frame(s) \/ ReplayOver(s)
      PROVE  Shown'
  BY <1>1, <1>7 DEF Loaded, Derived, CastOver, Frame, ReplayOver, round, checking
<1>8. CASE UNCHANGED pageVars
  BY <1>1, <1>8 DEF pageVars, round, checking
<1> QED
  BY <1>3, <1>4, <1>5, <1>6, <1>7, <1>8 DEF Next

LEMMA ShownHolds == Spec => []Shown
<1>1. Init => Shown
  BY DEF Init, Shown, NoCard
<1>2. FInv /\ Shown /\ [Next]_pageVars => Shown'
  BY ShownStep
<1> QED
  BY <1>1, <1>2, FairInvariant, PTL DEF Spec

\* The amounts of a form are numbers.
LEMMA AmountsAre ==
    ASSUME PagesAssumption, ScaleAssumption, settled \in Settlements
    PROVE  Amounts \subseteq Nat
<1>1. Stakes \subseteq Nat /\ Scale \in Nat
  BY DEF PagesAssumption, ScaleAssumption, Stakes
<1> QED
  BY <1>1 DEF Amounts, Written, BetAmountFromReplay

\* A card is about the fields its check began with, and green exactly when all
\* that is given is of one round; its prize is the server's, whatever the row,
\* the stake and the unit it is written in.
THEOREM CardsAreTrue == Spec => []CardIsTrue
<1>1. ASSUME FInv, Shown PROVE CardIsTrue
  <2> DEFINE f == card.form
  <2> SUFFICES ASSUME card.kind = "result"
               PROVE  /\ card.ok <=> f.hash \in {NoRound, f.seed} /\ f.roll \in {NoRound} \cup
                                        (IF f.seed = f.nonce THEN {f.seed} ELSE {})
                      /\ f.seed = f.nonce /\ ReadAsBet(f.bet, settled[f.seed].stake) =>
                            PaysAlike(card.prize, f.seed)
    BY DEF CardIsTrue
  <2>1. f \in Forms /\ f.seed # NoRound /\ card = Result(f) /\ settled \in Settlements
    BY <1>1 DEF Shown, FInv, FairTypes
  <2>2. f.seed \in Rounds /\ f.bet \in Nat
    BY <2>1, AmountsAre, PagesAssumption, ScaleAssumption DEF Forms, Refs
  <2> HIDE DEF f
  <2>3. /\ card.ok = Verdict(f)
        /\ card.prize = IF f.bet > 0 /\ f.seed = f.nonce
                        THEN ComputeOutcome(settled[f.seed].pick, f.bet).prize ELSE 0
    BY <2>1 DEF Result
  <2>4. Verdict(f) <=> f.hash \in {NoRound, f.seed} /\ f.roll \in {NoRound} \cup
                          (IF f.seed = f.nonce THEN {f.seed} ELSE {})
    BY DEF Verdict, RollOf
  <2>5. ASSUME f.seed = f.nonce, ReadAsBet(f.bet, settled[f.seed].stake)
        PROVE  PaysAlike(card.prize, f.seed)
    BY <2>1, <2>2, <2>3, <2>5, PagePays, PagesAssumption
  <2> QED
    BY <2>3, <2>4, <2>5 DEF f
<1> QED
  BY <1>1, FairInvariant, ShownHolds, PTL

=============================================================================
