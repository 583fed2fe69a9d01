\* Three server lines can be split across any number of reads, enough for
\* one Receive to read past a newline into the next line; one Send.
CONSTANTS
  MaxLines = 3
  MaxSends = 1
SPECIFICATION Spec
INVARIANTS
  TypeOK
  ReceivedInOrder
PROPERTY
  ReceiveReturnsOnClose
\* The client may stay idle for good once the server stopped.
CHECK_DEADLOCK FALSE
