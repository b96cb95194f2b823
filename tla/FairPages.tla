----------------------------- MODULE FairPages -----------------------------
(***************************************************************************)
(* The two pages on which a player checks a round: /verify recomputes its  *)
(* roll and prize from the seeds, /replay plays its scene again.  Nothing  *)
(* disables their buttons: checks and replays overlap and end in any order.*)
(*                                                                         *)
(* A field holds the value of a round, and is named by it; client and      *)
(* server seed are one field.  A scene is named by the seeds and the nonce *)
(* it is derived from.  The service is external: it knows every round.     *)
(***************************************************************************)
EXTENDS PayTable

CONSTANTS Rounds, NoRound,
          Settlements,      \* bound: the picks and stakes the rounds may have
          Cent,             \* the step of the field of the amount
          Slots,            \* bound: checks or replays that overlap
          MaxEdits          \* bound: changes of the fields by the player

ASSUME PagesAssumption ==
    /\ NoRound \notin Rounds
    /\ Settlements \subseteq [Rounds -> [pick : 0..(TotalWeight - 1), stake : Nat \ {0}]]
    /\ Cent \in Nat \ {0} /\ MaxEdits \in Nat

VARIABLES
    page,       \* which of the two is open
    settled,    \* the pick and the stake of each round, as the server has them
    form,       \* the fields of the page
    runs,       \* the checks or replays under way
    card,       \* /verify: the result
    address,    \* /verify: the fields in the address
    copying,    \* /verify: the fields of the link that is being copied
    canvas,     \* /replay: what is on the canvas
    edits       \* how often the player changed a field

pageVars  == <<page, settled, form, runs, card, address, copying, canvas, edits>>
round     == <<page, settled>>
checking  == <<card, address, copying>>

\* Fields of /verify; those of /replay have the round to load in `hash`.
Empty   == [seed |-> NoRound, hash |-> NoRound, nonce |-> NoRound, roll |-> NoRound, bet |-> 0]
Idle    == [pc |-> "idle", form |-> Empty]
NoCard  == [kind |-> "none", form |-> Empty, ok |-> TRUE, prize |-> 0]
Blank   == [scene |-> Empty, fish |-> Empty, line |-> 0]
Refs    == Rounds \cup {NoRound}

Picks  == {all[r].pick : all \in Settlements, r \in Rounds}
Stakes == {all[r].stake : all \in Settlements, r \in Rounds}

\* What a player writes for the stake s: units of money, or minor units.
Written(s) == (IF s % Cent = 0 THEN {s} ELSE {}) \cup {s * Scale}
Amounts    == {0, 10 * Scale} \cup UNION {Written(s) \cup {BetAmountFromReplay(s)} : s \in Stakes}

Forms   == [seed : Refs, hash : Refs, nonce : Refs, roll : Refs, bet : Amounts]
Prizes  == {0} \cup {Outcome(p, s).prize : p \in Picks, s \in Stakes}
               \cup {ComputeOutcome(p, b).prize : p \in Picks, b \in Amounts}
Lines   == Prizes \cup {prize * Scale : prize \in Prizes}

\* Type invariant.
FairTypeOK ==
    /\ page \in {"verify", "replay"}
    /\ settled \in Settlements
    /\ form \in Forms /\ address \in Forms /\ copying \in Forms
    /\ \A s \in Slots : /\ runs[s].form \in Forms
                        /\ runs[s].pc \in {"idle", "check", "load", "derive", "cast", "path"}
    /\ card.kind \in {"none", "result", "refused"} /\ card.form \in Forms
    /\ card.ok \in BOOLEAN /\ card.prize \in Prizes
    /\ {canvas.scene, canvas.fish} \subseteq Forms /\ canvas.line \in Lines
    /\ edits \in 0..MaxEdits

Running == {s \in Slots : runs[s] # Idle}

-----------------------------------------------------------------------------
(* The fields *)

\* fillFromQuery and the link it reads.
Init ==
    /\ page \in {"verify", "replay"}
    /\ settled \in Settlements
    /\ form = (IF page = "replay" THEN [Empty EXCEPT !.bet = 10 * Scale] ELSE Empty)
    /\ runs = [s \in Slots |-> Idle]
    /\ card = NoCard /\ address = Empty /\ copying = Empty /\ canvas = Blank
    /\ edits = 0

Edited(fields) ==
    /\ edits < MaxEdits
    /\ edits' = edits + 1
    /\ form' = fields

\* The player writes into one of the fields.
Edit ==
    /\ \/ \E name \in {"seed", "hash", "nonce", "roll"}, r \in Refs :
             Edited([form EXCEPT ![name] = r])
       \/ \E r \in Rounds : \E amount \in Written(settled[r].stake) :
             Edited([form EXCEPT !.bet = amount])
    /\ UNCHANGED <<round, runs, checking, canvas>>

\* Mutant of Parsed: the amount is made minor units once more.
ParsedTwice(r, amount) ==
    [seed |-> r, hash |-> r, nonce |-> r, roll |-> r,
     bet |-> IF amount = 0 THEN form.bet ELSE amount * Scale]

\* parseProvablyFairJson: the answer to a bet, or its proof, has no amount; a
\* record of the round has its stake.
Parsed(r, amount) ==
    [seed |-> r, hash |-> r, nonce |-> r, roll |-> r,
     bet |-> IF amount = 0 THEN form.bet ELSE amount]

\* The button "import": what the JSON lacks stays.
Import ==
    /\ page = "verify"
    /\ \E r \in Rounds : \E amount \in {0, settled[r].stake * Scale} : Edited(Parsed(r, amount))
    /\ card' = NoCard
    /\ UNCHANGED <<round, runs, address, copying, canvas>>

\* The button "clear".
Clear ==
    /\ page = "verify"
    /\ Edited(Empty)
    /\ card' = NoCard
    /\ UNCHANGED <<round, runs, address, copying, canvas>>

\* buildShareUrl needs the seeds and the nonce.
Shareable == NoRound \notin {form.seed, form.nonce}

\* The button "copy": the address follows when the clipboard has the link.
CopyLink ==
    /\ page = "verify" /\ copying = Empty /\ Shareable
    /\ copying' = form
    /\ UNCHANGED <<round, form, runs, card, address, canvas, edits>>

LinkCopied ==
    /\ copying # Empty
    /\ address' = copying /\ copying' = Empty
    /\ UNCHANGED <<round, form, runs, card, canvas, edits>>

\* The page is loaded from its address: the fields come from the query.
OpenLink ==
    /\ page = "verify"
    /\ form' = address
    /\ runs' = [s \in Slots |-> Idle]
    /\ card' = NoCard /\ copying' = Empty
    /\ UNCHANGED <<round, address, canvas, edits>>

-----------------------------------------------------------------------------
(* /verify *)

\* The browser holds a form back whose seeds are empty, or whose amount is not
\* of the step of its field.  A field without a round is empty or blank.
Complete == Shareable /\ form.bet % Cent = 0

Begin(s, pc) ==
    /\ runs[s] = Idle
    /\ runs' = [runs EXCEPT ![s] = [pc |-> pc, form |-> form]]

\* verify, up to its first await.
Check(s) ==
    /\ page = "verify" /\ Complete
    /\ Begin(s, "check")
    /\ UNCHANGED <<round, form, checking, canvas, edits>>

\* Seeds or a nonce of nothing but blanks pass the browser: a card says so.
CheckRefused ==
    /\ page = "verify" /\ ~Shareable /\ form.bet % Cent = 0
    /\ card' = [NoCard EXCEPT !.kind = "refused"]
    /\ UNCHANGED <<round, form, runs, address, copying, canvas, edits>>

\* The roll of the seeds and the nonce is that of round r.
RollOf(f, r) == f.seed = r /\ f.nonce = r

\* Whether the card is green: what is not given is not compared.
Verdict(f) == /\ f.hash = NoRound \/ f.hash = f.seed
              /\ f.roll = NoRound \/ RollOf(f, f.roll)

\* setResult at the end of verify.  The prize is that of a round there was.
Result(f) ==
    [kind  |-> "result", form |-> f, ok |-> Verdict(f),
     prize |-> IF f.bet > 0 /\ f.seed = f.nonce
               THEN ComputeOutcome(settled[f.seed].pick, f.bet).prize ELSE 0]

CheckDone(s) ==
    /\ runs[s].pc = "check"
    /\ card' = Result(runs[s].form)
    /\ runs' = [runs EXCEPT ![s] = Idle]
    /\ UNCHANGED <<round, form, address, copying, canvas, edits>>

\* The browser computes no digest, as for a page that came over http: nothing
\* is shown, and an older card stays.
CheckFails(s) ==
    /\ runs[s].pc = "check"
    /\ runs' = [runs EXCEPT ![s] = Idle]
    /\ UNCHANGED <<round, form, checking, canvas, edits>>

-----------------------------------------------------------------------------
(* /replay *)

\* runReplay, up to its first await: by the round's id, or by the seeds.
Replay(s) ==
    /\ page = "replay"
    /\ form.hash # NoRound \/ Shareable
    /\ Begin(s, IF form.hash # NoRound THEN "load" ELSE "derive")
    /\ UNCHANGED <<round, form, checking, canvas, edits>>

\* The fetch failed: a line of text beside the canvas.
LoadFails(s) ==
    /\ runs[s].pc = "load"
    /\ runs' = [runs EXCEPT ![s] = Idle]
    /\ UNCHANGED <<round, form, checking, canvas, edits>>

\* The start of animateReplay: the scene covers the canvas.
Paint(s, f) ==
    /\ runs' = [runs EXCEPT ![s] = [pc |-> "cast", form |-> f]]
    /\ canvas' = [scene |-> f, fish |-> Empty, line |-> 0]

\* loadFromRoundId is answered: the fields become those of the round.
Loaded(s) ==
    LET r == runs[s].form.hash
        f == [form EXCEPT !.seed = r, !.nonce = r, !.bet = BetAmountFromReplay(settled[r].stake)]
    IN  /\ runs[s].pc = "load"
        /\ form' = f
        /\ Paint(s, [f EXCEPT !.hash = r])
        /\ UNCHANGED <<round, checking, edits>>

\* computeReplayScene has all its rolls.
Derived(s) ==
    /\ runs[s].pc = "derive"
    /\ Paint(s, runs[s].form)
    /\ UNCHANGED <<round, form, checking, edits>>

\* A frame of the path covers the canvas.
Picture(f) == [scene |-> f, fish |-> f, line |-> 0]

\* The cast is over: a first fish, and over it, with no wait between, the first
\* frame of the path.
CastOver(s) ==
    /\ runs[s].pc = "cast"
    /\ runs' = [runs EXCEPT ![s].pc = "path"]
    /\ canvas' = Picture(runs[s].form)
    /\ UNCHANGED <<round, form, checking, edits>>

\* The next frame.
Frame(s) ==
    /\ runs[s].pc = "path"
    /\ canvas' = Picture(runs[s].form)
    /\ UNCHANGED <<round, form, runs, checking, edits>>

\* The number on the last line, times Scale: minor units as they are for a round
\* that was loaded, units of money for one derived from seeds.
Line(f) ==
    IF f.hash # NoRound
    THEN Outcome(settled[f.hash].pick, settled[f.hash].stake).prize * Scale
    ELSE IF f.seed = f.nonce THEN ComputeOutcome(settled[f.seed].pick, f.bet).prize
    ELSE 0

\* Mutant of LastFrame: the background is not drawn again.
LastFrameOver(s) == [Picture(runs[s].form) EXCEPT !.scene = canvas.scene,
                                               !.line = Line(runs[s].form)]

\* The end of animateReplay covers the canvas too.
LastFrame(s) == [Picture(runs[s].form) EXCEPT !.line = Line(runs[s].form)]

ReplayOver(s) ==
    /\ runs[s].pc = "path"
    /\ canvas' = LastFrame(s)
    /\ runs' = [runs EXCEPT ![s] = Idle]
    /\ UNCHANGED <<round, form, checking, edits>>

Next ==
    \/ Edit \/ Import \/ Clear \/ CopyLink \/ LinkCopied \/ OpenLink
    \/ CheckRefused
    \/ \E s \in Slots :
          \/ Check(s) \/ CheckDone(s) \/ CheckFails(s)
          \/ Replay(s) \/ LoadFails(s) \/ Loaded(s) \/ Derived(s)
          \/ CastOver(s) \/ Frame(s) \/ ReplayOver(s)

Spec == Init /\ [][Next]_pageVars

-----------------------------------------------------------------------------

\* The pages read an amount as the server did if it is written in units of
\* money, of which there are less than Scale, or in minor units, of which there
\* are Scale or more.
ReadAsBet(amount, bet) ==
    \/ amount = bet /\ (bet < Scale * Scale \/ bet % Scale # 0)
    \/ amount = bet * Scale /\ bet >= Scale

\* The page pays what the server paid, or what is cut off from a half.
PaysAlike(prize, r) ==
    LET paid == Outcome(settled[r].pick, settled[r].stake).prize
    IN  \/ prize = paid
        \/ /\ prize = paid - 1
           /\ SamplePick(settled[r].pick).multiplier = Half /\ settled[r].stake % 2 = 1

\* A card is about the fields as they were when its check began.  It is green
\* if all that is given is of one round, and red if a hash or a roll is of
\* another; its prize is the one the server paid.
CardIsTrue ==
    card.kind = "result" =>
        LET f == card.form
        IN  /\ card.ok <=> f.hash \in {NoRound, f.seed} /\ f.roll \in {NoRound} \cup
                              (IF f.seed = f.nonce THEN {f.seed} ELSE {})
            /\ f.seed = f.nonce /\ ReadAsBet(f.bet, settled[f.seed].stake) =>
                  PaysAlike(card.prize, f.seed)

\* However many replays overlap, a picture is of one of them, its fish in its own
\* scene and its line the one of its own round; and when all have ended the
\* canvas has one that is complete, with the prize.
PictureIsOne ==
    /\ canvas.fish \in {Empty, canvas.scene}
    /\ canvas.line # 0 => canvas.fish = canvas.scene /\ canvas.line = Line(canvas.scene)
    /\ Running = {} /\ canvas.scene # Empty =>
          canvas.fish = canvas.scene /\ canvas.line = Line(canvas.scene)

=============================================================================
