---------------------------- MODULE MCVoiceRecord ----------------------------
EXTENDS VoiceRecord

MCExternData == <<0, 0, 1, 2, 0, 0, 3, 4>>
MCPackages == {<< <<11>>, <<12, 13>> >>, << <<21, 22, 23>> >>}
MCTimes == {16909060, 1735789200}
=============================================================================
