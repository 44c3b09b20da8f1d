--------------------- MODULE MCProducerConsumerQueue ---------------------
(* Bounds: three values (each is pushed once) and three consumers. *)
EXTENDS ProducerConsumerQueue

CONSTANTS i1, i2, i3, c1, c2, c3

MCItems     == {i1, i2, i3}
MCConsumers == {c1, c2, c3}

=============================================================================
