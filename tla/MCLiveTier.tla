----------------------------- MODULE MCLiveTier -----------------------------
EXTENDS LiveTier

Entry(f, run, why) == [file |-> f, run |-> run, why |-> why]

SomeEntries == {Entry("A", "yes", FALSE), Entry("A", "no", TRUE), Entry("A", "no", FALSE),
                Entry("A", "unsaid", FALSE), Entry("B", "yes", FALSE)}

const_Rosters == UNION {[1..n -> SomeEntries] : n \in 0..2}

KidsOf(ks) == [f \in Files |-> IF f = "A" THEN ks ELSE {}]

const_Trees == {[files |-> fs, kids |-> KidsOf(k[1]), required |-> KidsOf(k[2])] :
                  fs \in {{"A"}, {"A", "B"}},
                  k \in {<<{}, {}>>, <<{"01"}, {"01"}>>, <<{"01"}, {}>>}}
=============================================================================
