---- MODULE MCTui ----
EXTENDS Tui
MCCards == [t \in TeamIds |-> t]
MCCardSlot == [t \in TeamIds |-> CHOOSE s \in SlotIds : s = t]
MCStarts == {[ver |-> 0, slots |-> {1}, live |-> {1}, ended |-> {}, teams |-> {1, 2}],
             [ver |-> 0, slots |-> {1}, live |-> {}, ended |-> {1}, teams |-> {}],
             [ver |-> 0, slots |-> {}, live |-> {}, ended |-> {}, teams |-> {1}]}
====
