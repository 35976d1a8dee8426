SPECIFICATION WalkSpec
CONSTANTS
  Libraries <- MCLibraries
  Glibc <- MCGlibc
  GnuRuntime <- MCGnuRuntime
  Graphics <- MCGraphics
  Ffmpeg <- MCFfmpeg
  Own <- MCOwn
  FileName <- MCFileName
  Graphs <- MCGraphs
  Sonames <- MCSonames
  Unfits <- MCUnfits
  Images <- MCImages
  Seeds <- MCSeeds
  Browser = Browser
  NoSoname = NoSoname
  gbm = gbm
  nss = nss
  avcodec = avcodec
  stdcxx = stdcxx
  libc = libc
  helper = helper
INVARIANTS LibIsLeastClosure RefusedForCause
PROPERTIES ComesToAnEnd
