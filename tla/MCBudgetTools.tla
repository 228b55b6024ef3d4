---------------------------- MODULE MCBudgetTools ----------------------------
EXTENDS BudgetTools, TLC

CONSTANTS r1, r2, c1, c2

Adjustment(c, operation, value) == [campaign |-> c, operation |-> operation, value |-> value]
Ask(tool, c, delta, form, abbreviated) ==
    [tool |-> tool, args |-> [campaign |-> c, delta |-> delta, form |-> form,
                              abbreviated |-> abbreviated]]
Adjust(c, delta) == Ask("adjust_budget", c, delta, "integer", FALSE)

\* Two runs that adjust one campaign, in one round each: what one may write depends on
\* what the other wrote.
RivalIntents == {Adjustment(c1, "percent", 20), Adjustment(c1, "delta", -50)}
RivalDialogues == RivalIntents \X {1} \X {Adjust(c1, delta) : delta \in {200, 240, -50}}

\* One run with two rounds, next to one whose model asks for nothing: a delta that is
\* authorised, one that is always over the limit, and a prompt that authorises nothing.
\* The first round has what is right and what is wrong in each way: an abbreviated
\* identifier, another campaign or amount, no campaign, no number.  The second has what a
\* model may do after it wrote: write again, in the same form or in another.
SoloIntents == {NoIntent, Adjustment(c1, "delta", 200), Adjustment(c1, "double", 0)}
Silent == Adjustment(c2, "zero", 0)
FirstRound ==
    {Ask("read", c1, Missing, "integer", FALSE), Ask("read", c1, Missing, "integer", TRUE),
     Ask("other", c2, Missing, "integer", FALSE),
     Adjust(c1, 200), Adjust(c2, 200), Adjust(c1, -50),
     Ask("adjust_budget", c1, 200, "integer", TRUE),
     Adjust(Nowhere, 200), Adjust(c1, Missing), Adjust(c1, Malformed)}
SecondRound == {Adjust(c1, 200), Ask("adjust_budget", c1, 200, "decimal", FALSE)}
SoloDialogues ==
    ({Adjustment(c1, "delta", 200)} \X {1} \X FirstRound)
    \cup ({Adjustment(c1, "delta", 200)} \X {2} \X SecondRound)
    \cup {<<NoIntent, 1, Adjust(c1, 200)>>, <<Adjustment(c1, "double", 0), 1, Adjust(c1, 1000)>>}

AllIntents == RivalIntents \cup SoloIntents \cup {Silent}
TwoPrompts == [Runs -> RivalIntents]
              \cup {prompts \in [Runs -> SoloIntents \cup {Silent}] :
                      \E r \in Runs : prompts[r] = Silent /\ \A q \in Runs \ {r} : prompts[q] # Silent}
AllDialogues == RivalDialogues \cup SoloDialogues

Symmetry == Permutations(Runs)
=============================================================================
