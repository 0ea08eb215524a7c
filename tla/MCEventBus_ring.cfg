SPECIFICATION PublisherSpec
CONSTANTS
  Publisher = {p1, p2}
  Sub = {s1}
  Topic = {turn, cache}
  Topics <- OneTopic
  Capacity <- RoomForTwo
  MaxEvents = 4
INVARIANTS
  DeliveryExact
  NoLostWakeup
PROPERTIES
  ImplementsStream
  NobodyHangs
CHECK_DEADLOCK FALSE
