----------------------------- MODULE MCJpegFixup -----------------------------
(* Instances of JpegFixup: three resolutions, one with a header too large  *)
(* to be saved; two scans, one longer than ScanLimit.                      *)
EXTENDS JpegFixup

MCTable(n) == <<255, 219, 0, 3, n>>
MCSosSeg(n) == <<255, 218, 0, 4, n, n>>

MCHeaders == {MCTable(1) \o MCTable(2) \o MCSosSeg(7),
              MCTable(2) \o MCTable(3) \o MCSosSeg(8),
              MCTable(1) \o MCTable(2) \o MCTable(3) \o MCSosSeg(7)}
MCScans == {<<9, 255, 0>>, <<9, 9, 9, 9, 9, 9, 255, 0>>}
MCJunk  == {<<>>, <<0>>, <<0, 0, 0>>}

ASSUME MCCamera == Segmented /\ Recognisable
=============================================================================
