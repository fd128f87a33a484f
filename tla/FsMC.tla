-------------------------------- MODULE FsMC --------------------------------
(* Instances of Fs for TLC: two users, or one; the paths they pass.         *)
EXTENDS FsGraph
CONSTANTS p1, p2

MCOneProc == {p1}
MCTwoProcs == {p1, p2}

MCDot  == <<".">>
MCTtys == << <<"t", "0">> >>
MCTar  == <<"c", "m", "d">>

\* The root, a path that is refused, cmd.tar, and two new files.
MCAll == {<<"/">>, <<"a", "/", "b">>, <<"c", "m", "d">>, <<"a">>, <<"/", "b">>}
MCFiles == {<<"c", "m", "d">>, <<"a">>, <<"b">>, <<"c">>}

\* The partition of the repository's disk image, of which fs/disklog.c:76 gives
\* the size; FilesFit is true of it.
Real == INSTANCE Fs WITH
  DevSects <- 40257, BitsPerByte <- 8, BitsPerSect <- 4096, InodesPerSect <- 16,
  NR_DEFAULT_FILE_SECTS <- 2048, INSTALL_START_SECT <- 32768,
  INSTALL_NR_SECTS <- 2048, NR_SECTS_FOR_LOG <- 2048
ASSUME RealFilesFit == Real!FilesFit
=============================================================================
