----------------------------- MODULE MCSoloCodec ------------------------------
(* Bytes of four bits, blocks of four pulses, and tables as uneven as the
   code's, so that carries run, blocks are scaled down and escapes nest. *)
EXTENDS SoloCodec

MCMaxPulsesTable == <<2, 3>>
MCRateLevelsCDF  == [s \in 0 .. 1 |-> IF s = 0 THEN <<0, 90, 255>> ELSE <<0, 170, 255>>]
MCRateLevelsBits == [s \in 0 .. 1 |-> IF s = 0 THEN <<3, 2>> ELSE <<1, 3>>]
MCPulsesPerBlockCDF  == << <<0, 140, 215, 235, 249, 255>>, <<0, 20, 90, 190, 230, 255>>,
                           <<0, 3, 50, 140, 235, 255>> >>
MCPulsesPerBlockBits == << <<1, 3, 5, 6, 7>>, <<6, 3, 2, 4, 5>> >>
MCShellCDF == << << <<0, 128, 255>>, <<0, 50, 210, 255>> >>,
                 << <<0, 120, 255>>, <<0, 40, 200, 255>>, <<0, 20, 130, 240, 255>> >> >>
MCSignCDF  == [t \in (0 .. 1) \X (0 .. 1) \X (0 .. 1) |-> 90 + 40 * t[1] + 20 * t[2] - 50 * t[3]]
MCGainCDF  == [s \in 0 .. 1 |-> IF s = 0 THEN <<0, 10, 120, 240, 255>> ELSE <<0, 100, 200, 250, 255>>]
MCDeltaGainCDF   == <<0, 30, 200, 245, 255>>
MCMDDeltaGainCDF == <<0, 76, 200, 255>>
MCNLSF_CB == [fs \in 0 .. 3 |-> [s \in 0 .. 1 |->
               IF fs = 0 THEN << <<0, 100 + 50 * s, 255>>, <<0, 30, 180, 255>> >>
               ELSE << <<0, 200, 255>>, <<0, 80, 255>>, <<0, 128, 255>> >>]]
MCPitchLagCDF     == [fs \in 0 .. 3 |-> <<0, 40 + 30 * fs, 200, 255>>]
MCPitchContourCDF == [fs \in 0 .. 3 |-> IF fs = 0 THEN <<0, 160, 255>> ELSE <<0, 60, 140, 255>>]
MCLTPGainCDF == [p \in 0 .. 2 |-> <<0, 60 + 60 * p, 253, 255>>]
MCMinDelta   == -1
MCHBWidths   == <<5, 3>>
MCHighBands  == { << <<21, 5>>, <<10, 2>> >> }

MCGains       == [l \in 0 .. 3 |-> <<2, 3, 6, 10>>[l + 1]]
MCDeltaGains  == [i \in 0 .. 2 |-> 8 + 2 * i]
MCNLSFs       == [fs \in 0 .. 3 |-> [s \in 0 .. 1 |-> [stage \in 1 .. 3 |-> [i \in 0 .. 2 |-> i * stage + s]]]]
MCNLSF2A      == [v \in 0 .. 20 |-> <<9 - v, v - 4>>]
MCMinLag      == [fs \in 0 .. 3 |-> 4]
MCLagContours == [fs \in 0 .. 3 |-> [i \in 0 .. 2 |-> << <<0, 0, 0, 0>>, <<0, 1, 0, -1>>, <<-1, 0, 0, 1>> >>[i + 1]]]
MCLTPTaps     == [p \in 0 .. 2 |-> [i \in 0 .. 2 |-> <<i, 4 + 2 * p, 2>>]]
MCLTPScales   == [i \in 0 .. 2 |-> 16 - 3 * i]
MCQuantOffset == [t \in (0 .. 1) \X (0 .. 1) |-> 1 + t[1] + 2 * t[2]]

UnvoicedFrame(offset, gains, dgain, nlsf, interp, x, vad) ==
  [sigtype |-> 1, offsetType |-> offset, gains |-> gains, deltaGain |-> dgain, nlsf |-> nlsf,
   interp |-> interp, lag |-> 0, contour |-> 0, per |-> 0, ltp |-> <<0, 0, 0, 0>>, ltpScale |-> 0,
   x |-> x, vad |-> vad]

VoicedFrame(offset, gains, dgain, nlsf, interp, lag, per, ltp, x) ==
  [sigtype |-> 0, offsetType |-> offset, gains |-> gains, deltaGain |-> dgain, nlsf |-> nlsf,
   interp |-> interp, lag |-> lag, contour |-> lag % 2, per |-> per, ltp |-> ltp, ltpScale |-> per,
   x |-> x, vad |-> 1]

MCFrames ==
  { UnvoicedFrame(0, <<0, 0, 0, 0>>, 0, <<0, 1>>, 4, [i \in 1 .. 16 |-> 0], 0),
    UnvoicedFrame(1, <<3, 1, 2, 0>>, 1, <<1, 2>>, 2, <<9, -20, 4, 0, 17, -8, 31, 2, -5, 12, 0, 0, -14, 6, 3, -1>>, 1),
    VoicedFrame(0, <<3, 3, 1, 1>>, 1, <<1, 0>>, 1, 1, 2, <<2, 0, 1, 1>>,
           <<40, 8, -12, -30, 2, 44, 9, -13, -24, 5, 39, 7, -11, -28, 1, 30>>),
    VoicedFrame(1, <<1, 2, 0, 3>>, 1, <<0, 2>>, 4, 2, 0, <<1, 2, 0, 2>>,
           <<0, 6, 13, 5, -2, -9, -3, 4, 11, 6, 0, -7, -2, 3, 9, 90>>) }
=============================================================================
