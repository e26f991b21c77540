-------------------------------- MODULE MCVirtio --------------------------------
EXTENDS Virtio

CONSTANTS b1, b2, b3

ThreeBufs == {b1, b2, b3}
===============================================================================
