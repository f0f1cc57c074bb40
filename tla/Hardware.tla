------------------------------ MODULE Hardware ------------------------------
(***************************************************************************)
(* Hardware devices and the events they report (services/hardware.py and   *)
(* hardware_adapters.py).                                                  *)
(*                                                                         *)
(* Readings, endpoints and protocols are left out, and so is the status of *)
(* a device, which an event sets and nothing reads; the vendors answer, as *)
(* in the mode that is the default (config.py:30).                         *)
(***************************************************************************)
EXTENDS Equipment

CONSTANTS
  VendorNames,     \* the names that are given, besides none
  MaxDevices,
  MaxEvents

NoVendor == ""

ProbeVendors     == {"veederroot", "opw"}
DispenserVendors == {"tokheim", "gilbarco"}

DeviceTypes      == {"dispenser", "tank_probe", "printer", "other"}
IntegrationModes == {"manual", "simulated", "vendor_api"}

DeviceIds == 1..MaxDevices

ASSUME HardwareAssumption ==
  /\ MaxDevices \in Nat /\ MaxEvents \in Nat
  /\ NoVendor \notin VendorNames

VARIABLES
  devices,         \* id -> Device
  events           \* the hardware events, oldest first

hardwareVars == <<devices, events>>

\* device_identifier: whether there is one.
Device ==
  [station_id : Stations, device_type : DeviceTypes, integration_mode : IntegrationModes,
   vendor_name : VendorNames \cup {NoVendor}, device_identifier : BOOLEAN,
   dispenser_id : DispenserIds \cup {NoId}, tank_id : TankIds \cup {NoId},
   is_active : BOOLEAN]

\* What is entered: "other" is treated as "printer" is, and "manual" as "simulated" but
\* that nothing is reported.
EnteredDevices == {row \in Device : row.device_type # "other" /\ row.integration_mode # "manual"}

-----------------------------------------------------------------------------
LinkedAssetsFit(row) ==
  /\ row.dispenser_id # NoId =>
       /\ row.dispenser_id \in DOMAIN dispensers
       /\ dispensers[row.dispenser_id] = row.station_id
  /\ row.tank_id # NoId =>
       /\ row.tank_id \in DOMAIN tanks
       /\ tanks[row.tank_id].station_id = row.station_id
  /\ row.device_type = "dispenser"  => row.dispenser_id # NoId /\ row.tank_id = NoId
  /\ row.device_type = "tank_probe" => row.tank_id # NoId /\ row.dispenser_id = NoId

VendorConfigured(row) ==
  row.integration_mode = "vendor_api" =>
    /\ row.vendor_name # NoVendor
    /\ row.device_identifier
    /\ row.device_type \in {"dispenser", "tank_probe"}
    /\ row.vendor_name \in ProbeVendors     => row.device_type = "tank_probe"
    /\ row.vendor_name \in DispenserVendors => row.device_type = "dispenser"

ValidDevice(row) == LinkedAssetsFit(row) /\ VendorConfigured(row)

CreateDevice(row) ==
  LET d == NextId(devices) IN
  /\ d \in DeviceIds
  /\ ValidDevice(row)
  /\ devices' = Added(devices, d, row)
  /\ UNCHANGED <<setupVars, documentVars, events>>

Merged(device, changes) ==
  [f \in DOMAIN device |-> IF f \in DOMAIN changes THEN changes[f] ELSE device[f]]

\* Slip: the device is checked before the changes are made.
CheckedSlip(device, changes) == device
Checked(device, changes) == Merged(device, changes)

UpdateDevice(d, changes) ==
  /\ ValidDevice(Checked(devices[d], changes))
  /\ devices' = [devices EXCEPT ![d] = Merged(devices[d], changes)]
  /\ UNCHANGED <<setupVars, documentVars, events>>

\* Slip: the events of the device are not looked for.
HasEventsSlip(d) == FALSE
HasEvents(d) == \E i \in 1..Len(events) : events[i].device_id = d

DeleteDevice(d) ==
  /\ ~HasEvents(d)
  /\ devices' = Removed(devices, d)
  /\ UNCHANGED <<setupVars, documentVars, events>>

Record(event) ==
  /\ Len(events) < MaxEvents
  /\ events' = Append(events, event)
  /\ UNCHANGED <<setupVars, documentVars, devices>>

-----------------------------------------------------------------------------
\* get_hardware_adapter: the vendor's own adapter, or the generic one.
Adapter(device) ==
  IF device.integration_mode # "vendor_api" THEN "simulated"
  ELSE IF device.vendor_name \in ProbeVendors \cup DispenserVendors THEN device.vendor_name
  ELSE "generic"

\* ensure_supported of the adapter.
Supported(adapter, device) ==
  IF adapter = "simulated"
  THEN device.integration_mode = "simulated"
  ELSE /\ device.integration_mode = "vendor_api"
       /\ adapter # "generic" => device.vendor_name = adapter
       /\ device.device_identifier

\* What the vendor's snapshot measures; the generic adapter follows the type.
Measures(adapter, device) ==
  IF adapter \in ProbeVendors THEN "tank_probe"
  ELSE IF adapter \in DispenserVendors THEN "dispenser"
  ELSE IF device.device_type = "tank_probe" THEN "tank_probe" ELSE "dispenser"

SimulateDispenserReading(d, n) ==
  LET device == devices[d] IN
  /\ device.is_active
  /\ device.device_type = "dispenser"
  /\ Supported(Adapter(device), device)
  /\ device.dispenser_id = nozzles[n].dispenser_id
  /\ dispensers[device.dispenser_id] = device.station_id
  /\ Record([device_id |-> d, nozzle_id |-> n,
             dispenser_id |-> device.dispenser_id, tank_id |-> NoId])

SimulateTankProbeReading(d) ==
  LET device == devices[d] IN
  /\ device.is_active
  /\ device.device_type = "tank_probe"
  /\ Supported(Adapter(device), device)
  /\ device.tank_id \in DOMAIN tanks
  /\ tanks[device.tank_id].station_id = device.station_id
  /\ Record([device_id |-> d, nozzle_id |-> NoId,
             dispenser_id |-> NoId, tank_id |-> device.tank_id])

\* A snapshot that lacks what the type of the device is asked for is refused; that the
\* linked dispenser or tank still exists is not asked.
Answers(device) ==
  LET adapter == Adapter(device) IN
  /\ adapter # "simulated"
  /\ Supported(adapter, device)
  /\ device.device_type = Measures(adapter, device)

PollVendorDevice(d) ==
  LET device == devices[d] IN
  /\ device.is_active
  /\ Answers(device)
  /\ Record([device_id |-> d, nozzle_id |-> NoId,
             dispenser_id |-> device.dispenser_id, tank_id |-> device.tank_id])

-----------------------------------------------------------------------------
\* A partial update is of one column, or of two together.
Columns ==
  [integration_mode |-> {"simulated", "vendor_api"}, vendor_name |-> VendorNames \cup {NoVendor},
   device_identifier |-> BOOLEAN, is_active |-> BOOLEAN,
   dispenser_id |-> DispenserIds \cup {NoId}, tank_id |-> TankIds \cup {NoId}]

HardwareNext ==
  \/ \E row \in EnteredDevices : CreateDevice(row)
  \/ \E d \in DOMAIN devices :
       \/ \E f, g \in DOMAIN Columns : \E v \in Columns[f], w \in Columns[g] :
            UpdateDevice(d, [k \in {f, g} |-> IF k = f THEN v ELSE w])
       \/ DeleteDevice(d)
       \/ \E n \in DOMAIN nozzles : SimulateDispenserReading(d, n)
       \/ SimulateTankProbeReading(d)
       \/ PollVendorDevice(d)

=============================================================================
