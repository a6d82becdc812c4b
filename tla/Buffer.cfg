SPECIFICATION BufferFairSpec
CONSTANTS
  Buffers = {b1, b2}
  Threads = {t1, t2, t3}
  NoThread = NoThread
  NoBuffer = NoBuffer
INVARIANTS
  ReturnedOnce
  FreeBufferIsUnused
  OneSendAtATime
  NoLostBuffer
PROPERTIES
  ReleasedBufferComesBack
