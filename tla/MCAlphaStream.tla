--------------------------- MODULE MCAlphaStream ---------------------------
(* Instances of FillsTca, and with it of AlphaStream, for TLC: an alpha    *)
(* that may be published repeatedly and a payload that does not validate.  *)
EXTENDS FillsTca

CONSTANTS a1, bad, w1, w2

MCAlphas      == {a1, bad}
MCBadPayloads == {bad}
MCWorkers     == {w1, w2}
MCOneWorker   == {w1}

=============================================================================
