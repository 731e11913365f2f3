\* The numbers of sim_link_one_test; bounds of 0, 2 and 5.5 packets of delay; a latency
\* so short that packets arrive while others have to leave.
CONSTANTS
  Packet <- Packets
  Length <- Lengths
  Time = {0}
  Rate <- Rates
  Latency = {300, 10000}
  DelayMax = {0, 1842, 5000}
  Mask <- Patterns
  MaxSubmits = 16
  Interval = 250
  Forever = 1000000
SPECIFICATION TestSpec
INVARIANTS TestTypeOK LossesFollowPattern DelayBounded
CHECK_DEADLOCK FALSE
