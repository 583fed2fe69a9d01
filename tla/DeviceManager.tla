---------------------------- MODULE DeviceManager ----------------------------
(***************************************************************************)
(* OpenAPT::DeviceManager (src/src/device/manager.cpp): one vector of      *)
(* devices per DeviceType, a device identified by its name.  A name is     *)
(* modelled by its "-"-separated parts: a base (model value) followed by   *)
(* the numbers fmt::format("{}-{}", name, index) appends, so the string    *)
(* "a-1" is <<a, 1>> whether the caller typed it or addDevice made it.     *)
(* The device classes' connect/disconnect/scan bodies are stubs that       *)
(* return true and keep no state; getStatus returns a constant per class.  *)
(* Types are the DeviceType enumerators, as strings.                       *)
(***************************************************************************)
EXTENDS Integers, Sequences

CONSTANTS
  Types,      \* the DeviceType values in the model, a subset of DeviceTypes
  Bases,      \* the first part of a name
  Requested,  \* names callers pass to addDevice, removeDevice, ...
  MaxDevices  \* bound on the devices of one type

ASSUME MaxDevices \in Nat

VARIABLES
  m_devices,  \* m_devices[type]: the names of that type's devices, in order
  alive       \* the DeviceManager object exists

vars == <<m_devices, alive>>

\* enum class DeviceType (device_manager.hpp lines 43-52), in order.
DeviceTypes == <<"Camera", "Telescope", "Focuser", "FilterWheel", "Solver", "Guider">>

ASSUME Types \subseteq {DeviceTypes[i] : i \in DOMAIN DeviceTypes}

\* The types of the model in enumerator order: the order of m_devices.
TypeOrder == SelectSeq(DeviceTypes, LAMBDA t : t \in Types)

IsName(n) == Len(n) >= 1 /\ n[1] \in Bases /\ \A k \in 2..Len(n) : n[k] \in Nat \ {0}

ASSUME \A r \in Requested : IsName(r)

-----------------------------------------------------------------------------
\* findDevice (lines 410-419): index of the first device of that type with
\* that name, -1 when there is none (1-based here, 0 is never returned).
FindDevice(type, name) ==
  IF \E i \in DOMAIN m_devices[type] : m_devices[type][i] = name
  THEN CHOOSE i \in DOMAIN m_devices[type] :
         /\ m_devices[type][i] = name
         /\ \A j \in 1..(i - 1) : m_devices[type][j] # name
  ELSE -1

\* Each device class: what getStatus returns and the operations it adds;
\* connect, disconnect, reconnect, scan and every added operation return
\* true and change nothing.
Camera == [status |-> "Connected",
           ops |-> {"setExposureTime", "setGain", "setResolution"}]
Telescope == [status |-> "Disconnected",
              ops |-> {"moveTo", "setFocus", "setTracking"}]
Focuser == [status |-> "Connected",
            ops |-> {"setSpeed", "setDirection", "setRotation"}]
FilterWheel == [status |-> "Disconnected", ops |-> {"setFilter"}]
Solver == [status |-> "Connected", ops |-> {"parseData"}]
Guider == [status |-> "Connected",
           ops |-> {"setGuideMode", "calibrate", "startGuiding", "stopGuiding"}]

\* The class addDevice instantiates for a type (lines 353-371).
ClassOf(type) ==
  [Camera |-> Camera, Telescope |-> Telescope, Focuser |-> Focuser,
   FilterWheel |-> FilterWheel, Solver |-> Solver, Guider |-> Guider][type]

\* What a device of the type answers to.
Operations(type) == {"connect", "disconnect", "reconnect", "scan", "getStatus"}
                    \cup ClassOf(type).ops

\* getDeviceList (lines 338-344): the names of that type, in order.
GetDeviceList(type) == m_devices[type]

\* getDevice (lines 400-408): the device findDevice locates, or nullptr
\* (here <<>>).
GetDevice(type, name) ==
  IF FindDevice(type, name) = -1 THEN <<>> ELSE <<type, name>>

\* findDeviceByName (lines 421-431): the first device with that name,
\* searching the types in enumerator order, or nullptr.
FindDeviceByName(name) ==
  LET holders == SelectSeq(TypeOrder, LAMBDA t : FindDevice(t, name) # -1)
  IN IF holders = <<>> THEN <<>> ELSE <<Head(holders), name>>

\* Mutant of FreeName: the loop is an if, one renaming attempt only.
FreeNameOnce(devs, name, candidate, index) ==
  IF \E i \in DOMAIN devs : devs[i] = candidate
  THEN Append(name, index)
  ELSE candidate

\* The candidate names addDevice tries: name, then name-1, name-2, ... until
\* one is not found among the devices of that type.
RECURSIVE FreeName(_, _, _, _)
FreeName(devs, name, candidate, index) ==
  IF \E i \in DOMAIN devs : devs[i] = candidate
  THEN FreeName(devs, name, Append(name, index), index + 1)
  ELSE candidate

Init ==
  /\ m_devices = [t \in Types |-> <<>>]
  /\ alive = TRUE

\* addDevice (lines 346-377): the first free name among name, name-1,
\* name-2, ...; a device of the type's class is appended under it.
AddDevice(type, name) ==
  /\ alive
  /\ Len(m_devices[type]) < MaxDevices
  /\ m_devices' = [m_devices EXCEPT ![type] =
                     Append(@, FreeName(@, name, name, 1))]
  /\ UNCHANGED alive

\* removeDevice (lines 379-390): erase the first device of that type with
\* that name, or warn and return false.
RemoveDevice(type, name) ==
  /\ alive
  /\ \/ /\ FindDevice(type, name) # -1
        /\ m_devices' = [m_devices EXCEPT ![type] =
                           LET k == FindDevice(type, name)
                           IN SubSeq(@, 1, k - 1) \o SubSeq(@, k + 1, Len(@))]
     \/ /\ FindDevice(type, name) = -1
        /\ UNCHANGED m_devices
  /\ UNCHANGED alive

\* Mutant of RemoveDevicesByName: std::remove_if without the erase; the
\* vector keeps its length and ends in moved-from, null shared_ptrs (<<>>).
RemoveDevicesByNameNoErase(name) ==
  /\ alive
  /\ m_devices' = [t \in Types |->
                    LET kept == SelectSeq(m_devices[t], LAMBDA n : n # name)
                    IN kept \o [k \in 1..(Len(m_devices[t]) - Len(kept)) |-> <<>>]]
  /\ UNCHANGED alive

\* removeDevicesByName (lines 392-398): erase every device with that name,
\* of every type.
RemoveDevicesByName(name) ==
  /\ alive
  /\ m_devices' = [t \in Types |-> SelectSeq(m_devices[t], LAMBDA n : n # name)]
  /\ UNCHANGED alive

\* The host calls an operation on the device getDevice or findDeviceByName
\* hands it; a null result is not used.  The stubs change nothing.
UseDevice(device, op) ==
  /\ alive
  /\ device # <<>>
  /\ op \in Operations(device[1])
  /\ UNCHANGED vars

\* ~DeviceManager (lines 329-336): disconnect() every device, type by type;
\* the vectors, and with them the devices no handle still holds, go.
Destroy ==
  /\ alive
  /\ alive' = FALSE
  /\ m_devices' = [t \in Types |-> <<>>]

Next ==
  \/ \E name \in Requested :
       \/ \E type \in Types : AddDevice(type, name) \/ RemoveDevice(type, name)
       \/ RemoveDevicesByName(name)
  \/ \E name \in Requested, op \in UNION {Operations(t) : t \in Types} :
       \/ \E type \in Types : UseDevice(GetDevice(type, name), op)
       \/ UseDevice(FindDeviceByName(name), op)
  \/ Destroy

Spec == Init /\ [][Next]_vars

-----------------------------------------------------------------------------
\* Every slot of every vector holds a device (a non-null shared_ptr with a
\* name), so the lookups may call getName() on each; removeDevice and
\* removeDevicesByName must shrink the vectors, not leave null slots.
TypeOK ==
  /\ DOMAIN m_devices = Types
  /\ alive \in BOOLEAN
  /\ \A t \in Types : \A i \in DOMAIN m_devices[t] : IsName(m_devices[t][i])

\* getDevice(type, name) and every lookup by name assume one device per
\* name and type: addDevice's renaming loop keeps the names of one type
\* distinct, whatever names callers choose, including ones that look like
\* names the loop generates.
NamesUniquePerType ==
  \A t \in Types : \A i, j \in DOMAIN m_devices[t] :
    i # j => m_devices[t][i] # m_devices[t][j]

=============================================================================
