----------------------------- MODULE FdiskDevices -----------------------------
(***************************************************************************)
(* The first two screens of FDISK (kernel/bank5/fdisk.c): the driver and   *)
(* the device of it are selected, before there is a list of partitions     *)
(* (module Fdisk).  What the driver answers to each query is given; what   *)
(* FDISK makes of the answers is kept in one array for all drivers and     *)
(* shown page by page.  A device number is a byte.                         *)
(***************************************************************************)
EXTENDS Integers, Sequences, Functions

CONSTANTS Systems,  \* sequences of drivers, [nextor, max, devices]: the flag of
                    \* _GDRVR, the maximum device number, none of them 0, with 0
                    \* for not implemented, and by number what each device there is answers:
                    \* [name, availability, params], the last a set of Faults,
                    \* {"none"} when not implemented or {"error"}
          DEFAULT_MAX_DEVICE_NUMBER, MAX_MANAGED_DRIVERS,
          MAX_DEVICES_PER_DRIVER, DEVICES_PER_PAGE,
          Numbers   \* values of a byte

VARIABLES system,     \* one of Systems
          drivers,    \* those that are offered
          selectedDriver, \* one of them, 0 at first
          devices,    \* [deviceNumber, isValid, isOnline, canCreatePartitions, params]
          availableDevicesCount, deviceNumber, currentDevicesPage,
          selectedDevice, \* index of it
          screen,     \* "start", "drivers", "scan", "ask", "devices", "menu", "end"
          wrapped     \* history: did deviceNumber count past the last number?

list == <<devices, availableDevicesCount, deviceNumber, wrapped>>
vars == <<system, drivers, selectedDriver, list, currentDevicesPage, selectedDevice, screen>>

\* What may be wrong with a device that has parameters; none of it is in params then.
Faults == {"not block", "floppy", "read only", "sector size", "no size"}
Indexes == 0..MAX_DEVICES_PER_DRIVER - 1
NotThere == [name |-> "invalid", availability |-> "error", params |-> {"error"}]
driver == drivers[selectedDriver]
Answers(number) ==
    IF number \in DOMAIN driver.devices THEN driver.devices[number] ELSE NotThere

\* The first drivers, without those of MSX-DOS kernels, whose flags are all zero.
GetDriversInformation ==
    LET n == IF Len(system) < MAX_MANAGED_DRIVERS THEN Len(system) ELSE MAX_MANAGED_DRIVERS
        found[driverIndex \in 0..n] ==
            IF driverIndex = 0 THEN <<>>
            ELSE IF system[driverIndex].nextor
            THEN Append(found[driverIndex - 1], system[driverIndex]) ELSE found[driverIndex - 1]
    IN found[n]

ShowDriverSelectionScreen ==
    /\ screen = "start"
    /\ drivers' = GetDriversInformation
    /\ screen' = IF drivers' = <<>> THEN "end" ELSE "drivers"
    /\ UNCHANGED <<system, selectedDriver, list, currentDevicesPage, selectedDevice>>

GoDeviceSelectionScreen(driverIndex) ==
    /\ screen = "drivers" /\ driverIndex \in 1..Len(drivers)
    /\ selectedDriver' = driverIndex
    /\ availableDevicesCount' = 0 /\ deviceNumber' = 1 /\ wrapped' = FALSE
    /\ screen' = "scan"
    /\ UNCHANGED <<system, drivers, devices, currentDevicesPage, selectedDevice>>

maxDeviceNumber == IF driver.max = 0 THEN DEFAULT_MAX_DEVICE_NUMBER ELSE driver.max
Scanning ==
    availableDevicesCount < MAX_DEVICES_PER_DRIVER /\ deviceNumber <= maxDeviceNumber

\* GetDevicesInformation asks for a name, the medium's or else the device's, and
\* lists the device unless the answer is an error.
ListDevice ==
    LET named == Answers(deviceNumber).name # "invalid"
    IN /\ screen = "scan" /\ Scanning
       /\ devices' = [devices EXCEPT ![availableDevicesCount].deviceNumber = deviceNumber,
                                     ![availableDevicesCount].isValid = @ \/ named]
       /\ availableDevicesCount' = availableDevicesCount + (IF named THEN 1 ELSE 0)
       /\ deviceNumber' = IF deviceNumber + 1 \in Numbers THEN deviceNumber + 1 ELSE 0
       /\ wrapped' = (wrapped \/ deviceNumber' = 0)
       /\ UNCHANGED <<system, drivers, selectedDriver, currentDevicesPage, selectedDevice, screen>>

\* Is it there, then what is it?  A query that is not implemented is no error; a
\* device without parameters has no size.
Asked(d) ==
    LET answers == Answers(d.deviceNumber)
        valid == d.isValid /\ answers.availability # "error"
        online == answers.availability # "offline"
        ask == valid /\ online
    IN [d EXCEPT !.isOnline = online,
                 !.isValid = valid /\ (ask => answers.params # {"error"}),
                 !.params = IF ~ask \/ answers.params = {"error"} THEN @
                            ELSE IF answers.params = {"none"} THEN {"no size"}
                            ELSE answers.params]

\* Mutant: what was selectable stays so.
Shown_Sticky(ds, page) ==
    [i \in Indexes |->
        IF i \div DEVICES_PER_PAGE = page /\ i < availableDevicesCount
        THEN [ds[i] EXCEPT !.canCreatePartitions =
                @ \/ (ds[i].isValid /\ ds[i].isOnline /\ ds[i].params = {})]
        ELSE ds[i]]

\* ShowDeviceSelectionScreen: the devices of one page, each selectable or not.
Shown(ds, page) ==
    [i \in Indexes |->
        IF i \div DEVICES_PER_PAGE = page /\ i < availableDevicesCount
        THEN [ds[i] EXCEPT !.canCreatePartitions =
                ds[i].isValid /\ ds[i].isOnline /\ ds[i].params = {}]
        ELSE ds[i]]

\* The scan ends, all that were found are asked, and the first page is shown.
GetDevicesInformation ==
    /\ screen = "scan" /\ ~Scanning
    /\ currentDevicesPage' = 0
    /\ devices' = Shown([i \in Indexes |-> IF i < availableDevicesCount THEN Asked(devices[i])
                                           ELSE devices[i]], 0)
    /\ screen' = IF availableDevicesCount = 0 THEN "drivers" ELSE "devices"
    /\ UNCHANGED <<system, drivers, selectedDriver, availableDevicesCount, deviceNumber, wrapped,
                   selectedDevice>>

devicesPageCount == (availableDevicesCount + DEVICES_PER_PAGE - 1) \div DEVICES_PER_PAGE

TurnPage(page) ==
    /\ screen = "devices"
    /\ page \in {currentDevicesPage - 1, currentDevicesPage + 1} /\ page \in 0..devicesPageCount - 1
    /\ currentDevicesPage' = page
    /\ devices' = Shown(devices, page)
    /\ UNCHANGED <<system, drivers, selectedDriver, availableDevicesCount, deviceNumber, wrapped,
                   selectedDevice, screen>>

\* A digit selects one of the devices of the page; the main menu begins (module Fdisk).
SelectDevice(key) ==
    LET deviceInfoIndex == currentDevicesPage * DEVICES_PER_PAGE + key - 1
    IN /\ screen = "devices"
       /\ deviceInfoIndex < availableDevicesCount
       /\ devices[deviceInfoIndex].canCreatePartitions
       /\ selectedDevice' = deviceInfoIndex
       /\ screen' = "menu"
       /\ UNCHANGED <<system, drivers, selectedDriver, list, currentDevicesPage>>

\* ESC in the main menu shows the page again.
LeaveMenu ==
    /\ screen = "menu"
    /\ screen' = "devices"
    /\ devices' = Shown(devices, currentDevicesPage)
    /\ UNCHANGED <<system, drivers, selectedDriver, availableDevicesCount, deviceNumber, wrapped,
                   currentDevicesPage, selectedDevice>>

Escape ==
    /\ screen \in {"drivers", "devices"}
    /\ screen' = IF screen = "devices" THEN "drivers" ELSE "end"
    /\ UNCHANGED <<system, drivers, selectedDriver, list, currentDevicesPage, selectedDevice>>

Ended == screen = "end" /\ UNCHANGED vars

\* Nothing has cleared the array.
Init ==
    /\ system \in Systems
    /\ drivers = <<>> /\ selectedDriver = 0
    /\ \E set \in BOOLEAN :
         devices = [i \in Indexes |-> [deviceNumber |-> 0, isValid |-> set, isOnline |-> set,
                                       canCreatePartitions |-> set, params |-> {}]]
    /\ availableDevicesCount = 0 /\ deviceNumber = 0
    /\ currentDevicesPage = 0 /\ selectedDevice = 0
    /\ screen = "start" /\ wrapped = FALSE

Next ==
    \/ ShowDriverSelectionScreen
    \/ \E driverIndex \in 1..MAX_MANAGED_DRIVERS : GoDeviceSelectionScreen(driverIndex)
    \/ ListDevice
    \/ GetDevicesInformation
    \/ \E page \in Indexes : TurnPage(page)
    \/ \E key \in 1..DEVICES_PER_PAGE : SelectDevice(key)
    \/ LeaveMenu
    \/ Escape
    \/ Ended

Spec == Init /\ [][Next]_vars

----------------------------------------------------------------------------
(* What the drivers may answer. *)

\* The number 0 is that of the driver itself.
IsDriver(d) ==
    /\ d.max \in Nat /\ DOMAIN d.devices \subseteq Nat \ {0}
    /\ \A n \in DOMAIN d.devices :
         d.devices[n].params \in (SUBSET Faults) \cup {{"none"}, {"error"}}

\* A system is a sequence of drivers; a number has the next one, or is the last.
DevicesAssumption ==
    /\ {MAX_MANAGED_DRIVERS, DEFAULT_MAX_DEVICE_NUMBER} \subseteq Nat
    /\ {MAX_DEVICES_PER_DRIVER, DEVICES_PER_PAGE} \subseteq Nat \ {0}
    /\ Numbers \subseteq Nat /\ {0, 1} \subseteq Numbers
    /\ \A s \in Systems : s \in Seq(Range(s)) /\ \A d \in Range(s) : IsDriver(d)

----------------------------------------------------------------------------
(* Properties. *)

TypeOK ==
    /\ system \in Systems /\ selectedDriver \in 0..Len(drivers)
    /\ \A i \in Indexes :
         /\ devices[i].deviceNumber \in Numbers /\ devices[i].params \subseteq Faults
         /\ {devices[i].isValid, devices[i].isOnline, devices[i].canCreatePartitions} \subseteq BOOLEAN
    /\ availableDevicesCount \in 0..MAX_DEVICES_PER_DRIVER /\ deviceNumber \in Numbers
    /\ {currentDevicesPage, selectedDevice} \subseteq Indexes /\ wrapped \in BOOLEAN

\* The driver itself says of a device that it is there, writable, no floppy disk, and
\* of a known size.
Usable(answers) == answers.params = {} /\ answers.availability \notin {"offline", "error"}

\* What the array says of a device is what the driver answers for it.
AsAnswered(d) ==
    LET answers == Answers(d.deviceNumber)
    IN /\ d.isOnline <=> answers.availability # "offline"
       /\ d.isValid <=> /\ answers.availability # "error"
                        /\ answers.availability # "offline" => answers.params # {"error"}
       /\ d.isValid /\ d.isOnline =>
            d.params = IF answers.params = {"none"} THEN {"no size"} ELSE answers.params

\* What was listed, shown or selectable of another driver or page before shows nowhere:
\* of every device that is listed the array says what the selected driver answers for it,
\* a device of the page on the screen can be selected exactly when it is usable, and the
\* one that is partitioned is one of that page.  The devices listed are the first ones of
\* the driver up to its maximum, each once and in order; only this is not said of a
\* driver whose maximum is the last number of a byte and that has fewer devices than are
\* managed, which is scanned again from number 0 (fdisk.c 285-561).
DevicesTruthful ==
    screen \in {"devices", "menu"} =>
        LET Listed == [i \in 1..availableDevicesCount |-> devices[i - 1].deviceNumber]
            There == {n \in DOMAIN driver.devices :
                        n <= maxDeviceNumber /\ driver.devices[n].name # "invalid"}
        IN /\ \A i \in 0..availableDevicesCount - 1 :
                /\ AsAnswered(devices[i])
                /\ i \div DEVICES_PER_PAGE = currentDevicesPage =>
                     (devices[i].canCreatePartitions <=> Usable(Answers(devices[i].deviceNumber)))
           /\ screen = "menu" =>
                /\ selectedDevice \in 0..availableDevicesCount - 1
                /\ selectedDevice \div DEVICES_PER_PAGE = currentDevicesPage
                /\ Usable(Answers(devices[selectedDevice].deviceNumber))
           /\ ~wrapped =>
                /\ Range(Listed) \subseteq There
                /\ \A i \in DOMAIN Listed : \A m \in There :
                     m < Listed[i] => \E j \in 1..i - 1 : Listed[j] = m
                /\ \A i, j \in DOMAIN Listed : i < j => Listed[i] < Listed[j]
                /\ availableDevicesCount < MAX_DEVICES_PER_DRIVER => Range(Listed) = There
=============================================================================
