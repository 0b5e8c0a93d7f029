---------------------------- MODULE MCFrameLoop ----------------------------
(* A console of a few scanlines of a few cycles, one of them visible.      *)
EXTENDS FrameLoop

On(irq, joy) == [kind |-> "nmitimen", val |-> [nmi |-> TRUE, irq |-> irq, joy |-> joy]]
Off == [kind |-> "nmitimen", val |-> [nmi |-> FALSE, irq |-> 0, joy |-> FALSE]]
Simple(kinds) == {[kind |-> k] : k \in kinds}

\* Programs that look at the APU while DMA and HDMA move time.
ClockEffects == Simple({"none", "port", "mdmaen"})
                \cup {[kind |-> "hdmaen", val |-> TRUE], On(0, TRUE)}

\* Programs that play with the interrupt registers.
InterruptEffects == Simple({"none", "rdnmi", "timeup", "wai", "stp", "cli", "sei"})
                    \cup {On(1, FALSE), On(3, FALSE), Off,
                          [kind |-> "vtime", val |-> 1], [kind |-> "htime", val |-> 1]}

BothPrograms == {ClockEffects, InterruptEffects}
InterruptProgram == {InterruptEffects}
=============================================================================
