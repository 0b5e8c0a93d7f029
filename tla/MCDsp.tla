------------------------------- MODULE MCDsp -------------------------------
(* Two samples of two blocks each, one that loops back into its second      *)
(* block and one over the end of RAM that ends; a second layout in which    *)
(* the first ends and the second loops to it; envelopes at the fast rates,  *)
(* whose periods are 1 and 2; an echo buffer of 1 frame per step of EDL,    *)
(* which ESA puts at the beginning of RAM or over its end.                  *)
EXTENDS Dsp, TLC

Blocks == {0, 9, 59, 4}
First  == [start |-> (0 :> 0 @@ 1 :> 59), loop |-> (0 :> 9 @@ 1 :> 4),
           flags |-> [a \in Blocks |->
             CASE a = 9 -> {"end", "loop"} [] a = 4 -> {"end"} [] OTHER -> {}]]
Second == [start |-> (0 :> 9 @@ 1 :> 59), loop |-> (0 :> 0 @@ 1 :> 0),
           flags |-> [a \in Blocks |->
             CASE a = 9 -> {"end"} [] a = 4 -> {"end", "loop"} [] OTHER -> {}]]
MCLayouts == <<First, Second>>

W(reg, val) == [reg |-> reg, v |-> 0, val |-> val]

\* A voice at nearly full pitch, whose sample, level and blocks are changed as it plays.
Notes == {W("kon", 1), W("koff", 1), W("srcn", 1), W("gain", 5), W("pitchh", \h38),
          W("endx", 0), W("layout", 2)}
Slides == {W("kon", 1), W("gain", 5), W("pitchl", 0), W("pitchh", \h3C), W("pmon", 1)}

\* A voice that stands still, through every mode of its envelope.
Envelopes == {W("kon", 1), W("koff", 1), W("adsr1", \hFF), W("adsr2", \hFE)}
Gains == {{W("kon", 1), W("koff", 1)} \cup {W("gain", g) : g \in G} :
            G \in {{\hDF, \h9F}, {5, \hBF}, {\hFF}}}
Echoes == {W("edl", 2), W("edl", 4), W("edl", 0), W("esa", 14), W("flg", 0), W("flg", \h20),
           W("flg", \h40)}
MCSongs == {Notes, Slides, Envelopes, Echoes} \cup Gains

\* Two voices; the second is modulated.
Duet == {[reg |-> "gain", v |-> i, val |-> 127] : i \in 0..1}
        \cup {W("kon", 1), W("kon", 2), W("pmon", 2), [reg |-> "pitchh", v |-> 1, val |-> 16]}
MCDuet == {Duet}
=============================================================================
