---------------------------- MODULE MCUsbDevice ----------------------------
EXTENDS UsbDeviceProps, TLC

CONSTANTS o1, o2

MCOwners == {o1, o2}
=============================================================================
