CONSTANTS
  Channels = 2
  FrameSizes = {0, 1, 2, 3}
  MaxAccepted = 10
SPECIFICATION EncoderSpec
INVARIANT FlushEmits
