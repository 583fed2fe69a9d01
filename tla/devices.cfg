\* addDevice, removeDevice, removeDevicesByName, the lookups, the device
\* operations and the destructor over two device types.
CONSTANTS
  a = a
  Types <- TwoTypes
  Bases <- OneBase
  Requested <- RequestedNames
  MaxDevices = 3
SPECIFICATION Spec
INVARIANT TypeOK
INVARIANT NamesUniquePerType
\* After ~DeviceManager nothing can be called on it.
CHECK_DEADLOCK FALSE
