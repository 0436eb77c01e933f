SPECIFICATION Spec
CONSTANTS
  Queues = {order_tq, courier_tq}
  NoCall = NoCall
INVARIANT KilledStaysDown
