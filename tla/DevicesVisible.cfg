CONSTANTS
  Catalog <- MCCatalog
  Windows <- MCWindows
  Score <- MCScore
  Machines <- MCMachines
  Requests <- MCRequests
  MaxChanges = 1
SPECIFICATION Spec
PROPERTIES
  VisibleDeviceIsFound
